---- MODULE Spec2Model ----
(***************************************************************************)
(* Holiday-window sales aggregation, year-over-year growth and the data   *)
(* loader of the executive dashboard (src/dashboard_tabs.py and            *)
(* src/data_loader.py, the modular application, and src/app.py, the        *)
(* monolithic application).                                                *)
(*                                                                         *)
(* A pandas DataFrame is a sequence of records.  A missing value (NaN) is  *)
(* the value NaN; a Timestamp is a number of ticks, TicksPerDay ticks to a *)
(* calendar day, tick 0 of a day being midnight.                           *)
(***************************************************************************)
EXTENDS Integers, Sequences, FiniteSets, TLC

VARIABLES
    variant,              \* "tabs": dashboard_tabs.py, "app": app.py
    pc,                   \* position of the script run
    raw_sales_data,       \* the normalized sales records
    leaves_data,          \* the holiday table (2024_2025_Leaves.csv)
    holiday_df,           \* generated holiday records (all_holiday_data)
    selected_festival,    \* widget values of the run
    selected_center,
    selected_years,
    filtered_holidays,    \* rows behind the "Holiday Sales Comparison" chart
    window_totals,        \* every window_sales value the ranking loop computed
    festival_performance, \* rows appended by the ranking loop
    performance_df,       \* festival_performance after sort_values
    outlet_yearly,        \* (Year, Month) -> MTD SALES of the selected outlet
    pivot_data,           \* growth table of the outlet comparison
    t_nagar_growth,       \* growth table of the T NAGAR analysis
    yearly_center_sales,  \* (center_name, Year) -> sales of the growth analysis
    center_pivot,         \* growth and projection table of the growth analysis
    fetched_data,         \* the table the loader fetched (Supabase rows, S3 csv)
    grouped_sales,        \* the period buckets (grouped_data)
    success,              \* the loader did not end in a failure branch
    now,                  \* the time, in ticks, between and during script runs
    cache_data,           \* st.cache_data: the cached result of load_sales_data
    session_state,        \* st.session_state of the browser session
    run,                  \* the script run: its trigger, its data, its end
    supabase_table,       \* the rows of the Supabase table
    fetch,                \* fetch_data_from_supabase: year, page, collected rows
    raw_data,             \* process_data.py: the rows of merged_service_data.csv
    chunk_size,           \* process_data.py: the rows of one chunk
    next_chunk,           \* process_data.py: i, the offset of the next chunk
    service_summary,      \* process_data.py: the partial, then the final aggregates
    overview              \* the sales overview tab: its selections and its metrics

vars == <<variant, pc, raw_sales_data, leaves_data, holiday_df,
          selected_festival, selected_center, selected_years,
          filtered_holidays, window_totals, festival_performance,
          performance_df, outlet_yearly, pivot_data, t_nagar_growth,
          yearly_center_sales, center_pivot,
          fetched_data, grouped_sales, success,
          now, cache_data, session_state, run,
          supabase_table, fetch,
          raw_data, chunk_size, next_chunk, service_summary, overview>>

holidayVars == <<raw_sales_data, leaves_data, holiday_df, selected_festival,
                 selected_center, selected_years, filtered_holidays,
                 window_totals, festival_performance, performance_df>>

growthVars == <<outlet_yearly, pivot_data, t_nagar_growth,
                yearly_center_sales, center_pivot>>

loadVars == <<fetched_data, grouped_sales, success>>

sessionVars == <<now, cache_data, session_state, run>>

fetchVars == <<supabase_table, fetch>>

chunkVars == <<raw_data, chunk_size, next_chunk, service_summary>>

\* the variables of the code around the tabs
pipelineVars == <<sessionVars, fetchVars, chunkVars, overview>>

\* Python's None
None == [kind |-> "None"]

\* the local variables of a script run before the run has set them
NoRun == [rerun |-> FALSE, source |-> "none", data |-> None, end |-> "none"]

\* the session before its first script run (app_modular.py 26-29,
\* app.py 70-74) and an empty cache
NewSession ==
    /\ now = 1
    /\ cache_data = None
    /\ session_state = [data_loaded |-> FALSE, dashboard_data |-> None,
                        last_refresh_time |-> None]
    /\ run = NoRun

\* supabase_utils.py 24-39: the locals of a fetch when its loops begin
FirstFetchYear == 2020
LastFetchYear == 2025

NewFetch ==
    [year |-> FirstFetchYear, page |-> 0, year_data |-> <<>>,
     all_data |-> <<>>, errors |-> FALSE]

NoFetch == supabase_table = <<>> /\ fetch = NewFetch

\* pd.DataFrame()
EmptyFrame == [columns |-> {}, rows |-> <<>>]

NoChunks ==
    /\ raw_data = <<>>
    /\ chunk_size = 1
    /\ next_chunk = 0
    /\ service_summary = EmptyFrame

\* the sales overview tab before it is rendered
NoOverview == overview = None

IdlePipeline == NewSession /\ NoFetch /\ NoChunks /\ NoOverview

-----------------------------------------------------------------------------
(* Bounds *)

MaxRecords == 3       \* sales records in the dataset
MaxRows == 2          \* rows of the holiday table
MaxGrowthYears == 2   \* years of the outlet comparison

-----------------------------------------------------------------------------
(* Values *)

NaN == "NaN"
AllCenters == "All Centers"
TicksPerDay == 2
EpochYear == 2022

\* pandas ==: a missing value equals nothing, itself included
EqPd(a, b) == a # NaN /\ b # NaN /\ a = b

\* Series.notna()
notna(x) == x # NaN

-----------------------------------------------------------------------------
(* Calendar: pd.Timestamp(year=, month=, day=), Timedelta(days=), .dt.date *)

IsLeap(y) == (y % 4 = 0 /\ y % 100 # 0) \/ y % 400 = 0

DaysInMonth(y, m) ==
    IF m = 2 THEN (IF IsLeap(y) THEN 29 ELSE 28)
    ELSE IF m \in {4, 6, 9, 11} THEN 30 ELSE 31

DaysInYear(y) == IF IsLeap(y) THEN 366 ELSE 365

\* pd.Timestamp(year, month, day) raises ValueError unless this holds
ValidDate(y, m, d) == m \in 1..12 /\ d \in 1..DaysInMonth(y, m)

RECURSIVE DaysBeforeYear(_)
DaysBeforeYear(y) ==
    IF y <= EpochYear THEN 0 ELSE DaysBeforeYear(y - 1) + DaysInYear(y - 1)

RECURSIVE DaysBeforeMonth(_, _)
DaysBeforeMonth(y, m) ==
    IF m <= 1 THEN 0 ELSE DaysBeforeMonth(y, m - 1) + DaysInMonth(y, m - 1)

DayNum(y, m, d) == DaysBeforeYear(y) + DaysBeforeMonth(y, m) + (d - 1)

\* the Timestamp of a calendar date: midnight of that day
Timestamp(y, m, d) == DayNum(y, m, d) * TicksPerDay

\* a Timestamp with a time of day (tod in 0..TicksPerDay-1)
TimestampAt(y, m, d, tod) == Timestamp(y, m, d) + tod

Timedelta(days) == days * TicksPerDay

\* Timestamp.date(), Series.dt.date
DateOf(ts) == ts \div TicksPerDay

\* Timestamp.year, Series.dt.year
YearOf(ts) ==
    CHOOSE y \in EpochYear..(EpochYear + 5) :
        /\ DaysBeforeYear(y) <= DateOf(ts)
        /\ DateOf(ts) < DaysBeforeYear(y) + DaysInYear(y)

\* Series.dt.month of a date of year y
MonthOf(ts) ==
    LET y == YearOf(ts)
        doy == DateOf(ts) - DaysBeforeYear(y)
    IN CHOOSE m \in 1..12 :
        DaysBeforeMonth(y, m) <= doy /\ doy < DaysBeforeMonth(y, m) + DaysInMonth(y, m)

\* Series.dt.day
DayOf(ts) ==
    LET y == YearOf(ts)
    IN DateOf(ts) - DaysBeforeYear(y) - DaysBeforeMonth(y, MonthOf(ts)) + 1

-----------------------------------------------------------------------------
(* Sequence helpers: the pandas operations the tabs use *)

Range(s) == {s[i] : i \in 1..Len(s)}

\* Series.unique(): distinct values in order of first appearance, NaN included
RECURSIVE unique(_)
unique(s) ==
    IF s = <<>> THEN <<>>
    ELSE LET u == unique(SubSeq(s, 1, Len(s) - 1))
             x == s[Len(s)]
         IN IF x \in Range(u) THEN u ELSE Append(u, x)

\* Series.sum() of a numeric column: the empty sum is 0
RECURSIVE sum(_)
sum(s) == IF s = <<>> THEN 0 ELSE Head(s) + sum(Tail(s))

Column(df, col) == [i \in 1..Len(df) |-> df[i][col]]

RECURSIVE Concat(_)
Concat(ss) == IF ss = <<>> THEN <<>> ELSE Head(ss) \o Concat(Tail(ss))

\* sorted(set of integers)
RECURSIVE SortedSeq(_)
SortedSeq(S) ==
    IF S = {} THEN <<>>
    ELSE LET m == CHOOSE x \in S : \A y \in S : x <= y
         IN <<m>> \o SortedSeq(S \ {m})

-----------------------------------------------------------------------------
(* Floating-point values: a finite number is a fraction num/den with       *)
(* den > 0; division by zero gives inf, -inf or nan and raises nothing     *)

Num(n) == [kind |-> "num", num |-> n, den |-> 1]
Frac(n, d) == IF d < 0 THEN [kind |-> "num", num |-> -n, den |-> -d]
              ELSE [kind |-> "num", num |-> n, den |-> d]
Inf == [kind |-> "inf"]
NegInf == [kind |-> "-inf"]
NaNValue == [kind |-> "nan"]

isfinite(x) == x.kind = "num"

\* (current / prev) * 100: the ratio without the subtraction of 1
ratio_pct(current, prev) ==
    IF current.kind = "nan" \/ prev.kind = "nan" THEN NaNValue
    ELSE IF prev.num = 0
         THEN (IF current.num = 0 THEN NaNValue
               ELSE IF current.num > 0 THEN Inf ELSE NegInf)
         ELSE Frac(current.num * prev.den * 100, prev.num * current.den)

\* ((current / prev) - 1) * 100 in float64 arithmetic
growth_pct(current, prev) ==
    IF current.kind = "nan" \/ prev.kind = "nan" THEN NaNValue
    ELSE IF prev.num = 0
         THEN (IF current.num = 0 THEN NaNValue
               ELSE IF current.num > 0 THEN Inf ELSE NegInf)
         ELSE Frac((current.num * prev.den - prev.num * current.den) * 100,
                   prev.num * current.den)

\* round to the nearest integer, halves to even (Python's round and "%.2f")
round_half_even(n, d) ==
    LET q == n \div d
        r == n - q * d
    IN IF 2 * r < d THEN q
       ELSE IF 2 * r > d THEN q + 1
       ELSE IF q % 2 = 0 THEN q ELSE q + 1

\* f"{x:.2f}%": the text of a growth cell; a finite value is given by its
\* hundredths, a non-finite one prints as inf%, -inf% or nan%
format_growth(x) ==
    IF isfinite(x) THEN [text |-> "number", hundredths |-> round_half_even(x.num * 100, x.den)]
    ELSE [text |-> x.kind \o "%", hundredths |-> 0]

\* x * 1.10
times_1_10(x) ==
    IF isfinite(x) THEN Frac(11 * x.num, 10 * x.den) ELSE x

\* format_indian_money: "₹0" for NaN and for 0, otherwise the rupee sign and
\* the digits of int(round(amount)) (the commas do not change the digits);
\* the text is given by the whole rupees it shows
format_indian_money(amount) ==
    IF amount.kind = "nan" \/ (isfinite(amount) /\ amount.num = 0)
    THEN [rupees |-> 0]
    ELSE [rupees |-> round_half_even(amount.num, amount.den)]

-----------------------------------------------------------------------------
(* Inputs: the sales records and the holiday table of a session *)

Sale(y, m, d, tod, center, exc, inc) ==
    [sale_date |-> TimestampAt(y, m, d, tod), center_name |-> center,
     sales_collected_exc_tax |-> exc, sales_collected_inc_tax |-> inc]

\* Candidate sales records.  "Leap Day" is Feb 29, "Diwali" is Oct 24.
RecordPool ==
    << Sale(2023, 10, 24, 0, "B", 6, 12),     \* on Diwali 2023
       Sale(2023, 10, 21, 0, "A", 12, 18),    \* D-3 of Diwali 2023
       Sale(2023, 10, 26, 1, "A", 12, 18),    \* D+2 of Diwali 2023, daytime
       Sale(2023, 10, 27, 0, "B", 6, 12),     \* D+3: outside the window
       Sale(2024, 2, 29, 1, NaN, 6, 12),      \* on Leap Day, outlet missing
       Sale(2024, 2, 29, 0, "A", 6, 12),      \* on Leap Day
       Sale(2024, 10, 24, 0, "B", -6, -6),    \* on Diwali 2024, a refund
       Sale(2024, 10, 24, 1, "A", 0, 0),      \* on Diwali 2024, zero amount
       Sale(2023, 3, 1, 0, "B", 6, 12) >>     \* 2023 has no Feb 29

Leave(y, m, d, festival, mtd) ==
    [Date |-> Timestamp(y, m, d), Festivals |-> festival, MTD_Sale |-> mtd]

\* Candidate rows of the holiday table (it lists 2024 and 2025 dates)
LeavesPool ==
    << Leave(2024, 10, 24, "Diwali", 6),
       Leave(2025, 10, 24, "Diwali", 0),
       Leave(2024, 2, 29, "Leap Day", 0) >>

\* strictly increasing index sequences of length at most n: the sub-tables
RECURSIVE IncSeqs(_, _, _)
IncSeqs(lo, hi, n) ==
    {<<>>} \cup
    (IF n = 0 THEN {}
     ELSE UNION { { <<i>> \o t : t \in IncSeqs(i + 1, hi, n - 1) } : i \in lo..hi })

\* index sequences without repetition of length at most n
RECURSIVE InjSeqs(_, _)
InjSeqs(S, n) ==
    {<<>>} \cup
    (IF n = 0 THEN {}
     ELSE UNION { { <<i>> \o t : t \in InjSeqs(S \ {i}, n - 1) } : i \in S })

Pick(pool, idx) == [k \in 1..Len(idx) |-> pool[idx[k]]]

Datasets == { Pick(RecordPool, idx) : idx \in IncSeqs(1, Len(RecordPool), MaxRecords) }

LeavesTables == { Pick(LeavesPool, idx) : idx \in InjSeqs(1..Len(LeavesPool), MaxRows) }

-----------------------------------------------------------------------------
(* Holiday generation: dashboard_tabs.py 253-382, app.py 1083-1164 *)

\* the amount column a variant aggregates
AmountField(v) ==
    IF v = "tabs" THEN "sales_collected_exc_tax" ELSE "sales_collected_inc_tax"

\* sorted(raw_sales_data['sale_date'].dt.year.unique())
available_years(raw) == SortedSeq({YearOf(raw[i].sale_date) : i \in 1..Len(raw)})

basic_holidays ==
    << [month |-> 1, day |-> 1, festival |-> "New Year"],
       [month |-> 1, day |-> 14, festival |-> "Pongal/Makar Sankranti"],
       [month |-> 1, day |-> 26, festival |-> "Republic Day"],
       [month |-> 8, day |-> 15, festival |-> "Independence Day"],
       [month |-> 10, day |-> 2, festival |-> "Gandhi Jayanti"],
       [month |-> 10, day |-> 24, festival |-> "Diwali"],
       [month |-> 12, day |-> 25, festival |-> "Christmas"] >>

\* temp_data: one row per basic holiday and available year with a valid date
basic_source_data(years) ==
    Concat([h \in 1..Len(basic_holidays) |->
        Concat([k \in 1..Len(years) |->
            IF ValidDate(years[k], basic_holidays[h].month, basic_holidays[h].day)
            THEN << [Date |-> Timestamp(years[k], basic_holidays[h].month,
                                        basic_holidays[h].day),
                     Festivals |-> basic_holidays[h].festival] >>
            ELSE <<>>])])

\* the rows the generation loop iterates over
source_data(v, raw, leaves) ==
    IF leaves # <<>> \/ v = "app" THEN leaves
    ELSE basic_source_data(available_years(raw))

\* date_sales: the sales whose calendar day is the festival date
date_sales(raw, festival_date) ==
    SelectSeq(raw, LAMBDA r : DateOf(r.sale_date) = DateOf(festival_date))

\* the body of the inner loop: the records appended for one table row and year
HolidayRecords(v, raw, holiday, year) ==
    LET month == MonthOf(holiday.Date)
        day == DayOf(holiday.Date)
    IN IF ~ValidDate(year, month, day) THEN <<>>   \* pd.Timestamp raised
       ELSE
         LET festival_date == Timestamp(year, month, day)
             ds == date_sales(raw, festival_date)
             centers == unique(Column(ds, "center_name"))
             row(center, tagged, rows) ==
                 [Festivals |-> holiday.Festivals, Date |-> festival_date,
                  Year |-> year, Center |-> center, per_center |-> tagged,
                  MTD_Sale |-> sum(Column(rows, AmountField(v)))]
         IN IF ds = <<>> THEN <<>>
            ELSE << row(NaN, FALSE, ds) >> \o
                 [c \in 1..Len(centers) |->
                     row(centers[c], TRUE,
                         SelectSeq(ds, LAMBDA r : EqPd(r.center_name, centers[c])))]

\* all_holiday_data / all_years_data after both loops
all_holiday_data(v, raw, leaves) ==
    LET src == source_data(v, raw, leaves)
        years == available_years(raw)
    IN Concat([h \in 1..Len(src) |->
           Concat([k \in 1..Len(years) |-> HolidayRecords(v, raw, src[h], years[k])])])

\* holiday_df = leaves_data.copy(); holiday_df['Year'] = Date.dt.year
leaves_copy(leaves) ==
    [i \in 1..Len(leaves) |->
        [Festivals |-> leaves[i].Festivals, Date |-> leaves[i].Date,
         Year |-> YearOf(leaves[i].Date), Center |-> NaN, per_center |-> FALSE,
         MTD_Sale |-> leaves[i].MTD_Sale]]

\* dashboard_tabs.py 264, 298-304: source_data is the session's holiday
\* table itself, and the 'Date', 'month' and 'day' columns are assigned to
\* it in place ('Date' is already a datetime column and keeps its values)
with_month_and_day(leaves) ==
    [i \in 1..Len(leaves) |->
        [Date |-> leaves[i].Date, Festivals |-> leaves[i].Festivals,
         MTD_Sale |-> leaves[i].MTD_Sale,
         month |-> MonthOf(leaves[i].Date), day |-> DayOf(leaves[i].Date)]]

\* 'Center' in df.columns: some record was appended with the key
has_center_column(df) == \E i \in 1..Len(df) : df[i].per_center

-----------------------------------------------------------------------------
(* The holidays tab, one script run *)

Init ==
    /\ variant \in {"tabs", "app"}
    /\ pc = "start"
    /\ raw_sales_data \in Datasets
    /\ leaves_data \in LeavesTables
    /\ holiday_df = <<>>
    /\ selected_festival = NaN
    /\ selected_center = AllCenters
    /\ selected_years = {}
    /\ filtered_holidays = <<>>
    /\ window_totals = <<>>
    /\ festival_performance = <<>>
    /\ performance_df = <<>>
    /\ outlet_yearly = <<>>
    /\ pivot_data = <<>>
    /\ t_nagar_growth = <<>>
    /\ yearly_center_sales = <<>>
    /\ center_pivot = <<>>
    /\ fetched_data = [columns |-> {}, rows |-> <<>>]
    /\ grouped_sales = <<>>
    /\ success = TRUE
    /\ IdlePipeline

\* dashboard_tabs.py 247-382: generate holiday_df, or end the run
GenerateHolidaysTabs ==
    /\ pc = "start"
    /\ variant = "tabs"
    /\ LET generated == all_holiday_data(variant, raw_sales_data, leaves_data)
       IN IF raw_sales_data = <<>>
          THEN /\ pc' = "no_sales_data"            \* line 642
               /\ holiday_df' = <<>>
          ELSE IF generated # <<>>
          THEN /\ pc' = "filters"
               /\ holiday_df' = generated
          ELSE IF leaves_data # <<>>
          THEN /\ pc' = "filters"                  \* lines 362-364
               /\ holiday_df' = leaves_copy(leaves_data)
          ELSE /\ pc' = "no_holiday_data"          \* lines 366-367
               /\ holiday_df' = <<>>
    /\ leaves_data' = IF raw_sales_data # <<>>
                      THEN with_month_and_day(leaves_data)   \* lines 298-304
                      ELSE leaves_data
    /\ UNCHANGED <<variant, pipelineVars, loadVars, raw_sales_data, selected_festival,
                   selected_center, selected_years, filtered_holidays,
                   window_totals, festival_performance, performance_df,
                   growthVars>>

\* app.py 1083-1166: generate the multi-year leaves_data, or end the run
GenerateHolidaysApp ==
    /\ pc = "start"
    /\ variant = "app"
    /\ LET generated == all_holiday_data(variant, raw_sales_data, leaves_data)
       IN IF raw_sales_data = <<>> \/ leaves_data = <<>>
          THEN /\ pc' = "no_holiday_data"          \* line 1778
               /\ holiday_df' = <<>>
          ELSE IF generated # <<>>
          THEN /\ pc' = "filters"
               /\ holiday_df' = generated
          ELSE /\ pc' = "crashed"                  \* line 1182: no 'Year' column
               /\ holiday_df' = <<>>
    /\ UNCHANGED <<variant, pipelineVars, loadVars, raw_sales_data, leaves_data, selected_festival,
                   selected_center, selected_years, filtered_holidays,
                   window_totals, festival_performance, performance_df,
                   growthVars>>

-----------------------------------------------------------------------------
(* Filters and the "Holiday Sales Comparison" chart:                        *)
(* dashboard_tabs.py 384-433, app.py 1166-1221                             *)

\* sorted(raw_sales_data['center_name'].unique()) raises TypeError when it
\* has to compare a missing value (a float) with an outlet name (a string)
sorted_raises(values) == NaN \in Range(values) /\ Len(values) > 1

all_centers(raw) == unique(Column(raw, "center_name"))

\* the options of the "Select Center" widget
center_options(v, raw, df) ==
    IF v = "tabs" THEN {AllCenters} \cup Range(all_centers(raw))
    ELSE IF has_center_column(df)
         THEN {AllCenters} \cup (Range(unique(Column(df, "Center"))) \ {NaN})
         ELSE {AllCenters}

\* the options of the "Select Years to Compare" widget
year_options(v, raw, df) ==
    IF v = "tabs" THEN Range(available_years(raw)) ELSE Range(Column(df, "Year"))

\* the rows of holiday_df the comparison chart is drawn from
filter_holidays(df, center, years) ==
    LET by_year == SelectSeq(df, LAMBDA h : h.Year \in years)
        by_center ==
            IF center # AllCenters /\ has_center_column(df)
            THEN SelectSeq(by_year, LAMBDA h : EqPd(h.Center, center))
            ELSE by_year
    IN IF has_center_column(df) /\ center = AllCenters
       THEN SelectSeq(by_center, LAMBDA h : ~notna(h.Center))
       ELSE by_center

\* dashboard_tabs.py 385: the sort of the outlet names fails
FiltersCrash ==
    /\ pc = "filters"
    /\ variant = "tabs"
    /\ sorted_raises(all_centers(raw_sales_data))
    /\ pc' = "crashed"
    /\ UNCHANGED <<variant, pipelineVars, loadVars, holidayVars, growthVars>>

\* the widgets are read and the comparison chart is drawn
HolidayComparison ==
    /\ pc = "filters"
    /\ variant = "tabs" => ~sorted_raises(all_centers(raw_sales_data))
    /\ \E festival \in Range(Column(holiday_df, "Festivals")),
          center \in center_options(variant, raw_sales_data, holiday_df),
          years \in SUBSET year_options(variant, raw_sales_data, holiday_df) :
            /\ selected_festival' = festival
            /\ selected_center' = center
            /\ selected_years' = years
            /\ filtered_holidays' = filter_holidays(holiday_df, center, years)
    /\ pc' = "analysis"
    /\ UNCHANGED <<variant, pipelineVars, loadVars, raw_sales_data, leaves_data, holiday_df,
                   window_totals, festival_performance, performance_df,
                   growthVars>>

-----------------------------------------------------------------------------
(* Window analysis and "Best Performing Holidays":                          *)
(* dashboard_tabs.py 465-640, app.py 1252-1385                             *)

LookbackDays == 3
LookaheadDays == 2
WindowDays == 6

start_date(festival_date) == festival_date - Timedelta(LookbackDays)
end_date(festival_date) == festival_date + Timedelta(LookaheadDays)

\* (sale_date >= start_date) & (sale_date <= end_date)
in_window(sale_date, festival_date) ==
    sale_date >= start_date(festival_date) /\ sale_date <= end_date(festival_date)

\* the sales of the window, of one center when a center is given
window_data(raw, festival_date, center) ==
    SelectSeq(raw, LAMBDA r :
        /\ center # AllCenters => EqPd(r.center_name, center)
        /\ in_window(r.sale_date, festival_date))

\* window_sales = window_data[amount].sum()
window_sales(v, rows) == sum(Column(rows, AmountField(v)))

\* a slip: the "±3 Days" of the table title read as a 7-day window
average_over_seven_days(total) == [num |-> total, den |-> WindowDays + 1]

\* window_sales / 6, kept as a fraction
average_daily_sales(total) == [num |-> total, den |-> WindowDays]

\* holiday_df[holiday_df['Festivals'] == festival]['Date'], with the year
\* test of the variant (tabs: inside the loop, app: in the mask)
festival_dates(df, festival, years) ==
    Column(SelectSeq(df, LAMBDA h : h.Festivals = festival /\ h.Year \in years
                                    /\ YearOf(h.Date) \in years),
           "Date")

\* the centers one window is evaluated for
window_centers(v, raw, center) ==
    IF center # AllCenters THEN <<center>>
    ELSE IF v = "tabs" THEN all_centers(raw)
    ELSE <<AllCenters>>

\* every window the ranking loop evaluates, in loop order
window_evaluations(v, raw, df, center, years) ==
    LET festivals == unique(Column(df, "Festivals"))
        centers == window_centers(v, raw, center)
    IN Concat([f \in 1..Len(festivals) |->
         LET dates == festival_dates(df, festivals[f], years)
         IN Concat([d \in 1..Len(dates) |->
              [c \in 1..Len(centers) |->
                  LET rows == window_data(raw, dates[d], centers[c])
                  IN [Festival |-> festivals[f], Year |-> YearOf(dates[d]),
                      Date |-> dates[d], Center |-> centers[c],
                      window_rows |-> rows,
                      Total_Window_Sales |-> window_sales(v, rows)]]])])

\* a slip: the test window_sales >= 0 in place of window_sales > 0
performance_rows_nonnegative(evaluations) ==
    LET kept == SelectSeq(evaluations, LAMBDA e : e.Total_Window_Sales >= 0)
    IN [i \in 1..Len(kept) |->
           [Festival |-> kept[i].Festival, Year |-> kept[i].Year,
            Date |-> kept[i].Date, Center |-> kept[i].Center,
            Total_Window_Sales |-> kept[i].Total_Window_Sales,
            Average_Daily_Sales |-> [num |-> kept[i].Total_Window_Sales,
                                     den |-> WindowDays]]]

\* if window_sales > 0: festival_performance.append(...)
performance_rows(evaluations) ==
    LET kept == SelectSeq(evaluations, LAMBDA e : e.Total_Window_Sales > 0)
    IN [i \in 1..Len(kept) |->
           [Festival |-> kept[i].Festival, Year |-> kept[i].Year,
            Date |-> kept[i].Date, Center |-> kept[i].Center,
            Total_Window_Sales |-> kept[i].Total_Window_Sales,
            Average_Daily_Sales |-> average_daily_sales(kept[i].Total_Window_Sales)]]

\* analysis_data is not empty: some window of the selected festival has sales
has_analysis_data(raw, df, festival, center, years) ==
    \E d \in Range(festival_dates(df, festival, years)) :
        window_data(raw, d, center) # <<>>

\* DataFrame.sort_values('Total Window Sales', ascending=False): the default
\* kind is quicksort, which is not stable, so the rows of equal total come
\* out in any order
RECURSIVE sort_values(_, _)
sort_values(rows, idx) ==
    IF idx = {} THEN {<<>>}
    ELSE LET top == {i \in idx : \A j \in idx :
                        rows[i].Total_Window_Sales >= rows[j].Total_Window_Sales}
             firsts == {i \in top : \A j \in top : rows[j] = rows[i] => i <= j}
         IN UNION { { <<rows[i]>> \o rest : rest \in sort_values(rows, idx \ {i}) }
                    : i \in firsts }

\* the ranking table is computed and sorted
BestPerforming ==
    /\ pc = "analysis"
    /\ has_analysis_data(raw_sales_data, holiday_df, selected_festival,
                         selected_center, selected_years)
    /\ LET evaluations == window_evaluations(variant, raw_sales_data, holiday_df,
                                             selected_center, selected_years)
           rows == performance_rows(evaluations)
       IN /\ window_totals' = evaluations
          /\ festival_performance' = rows
          /\ performance_df' \in sort_values(rows, 1..Len(rows))
    /\ pc' = "ranked"
    /\ UNCHANGED <<variant, pipelineVars, loadVars, raw_sales_data, leaves_data, holiday_df,
                   selected_festival, selected_center, selected_years,
                   filtered_holidays, growthVars>>

\* no window of the selected festival has sales: no ranking table
NoAnalysisData ==
    /\ pc = "analysis"
    /\ ~has_analysis_data(raw_sales_data, holiday_df, selected_festival,
                          selected_center, selected_years)
    /\ pc' = "no_analysis_data"
    /\ UNCHANGED <<variant, pipelineVars, loadVars, holidayVars, growthVars>>

-----------------------------------------------------------------------------
(* Year-over-year growth: dashboard_tabs.py 141-191 (outlet comparison),    *)
(* app.py 1053-1069 (T NAGAR analysis)                                     *)

FirstGrowthYear == 2023
GrowthYears == FirstGrowthYear..(FirstGrowthYear + MaxGrowthYears - 1)
GrowthMonths == <<"January", "February">>
GrowthValues == {0, 100, 150}

\* the (Year, Month) sums of one outlet, sorted by year and month; a cell of
\* the choice is a sum or no row at all
OutletTables ==
    LET Cells == {[present |-> FALSE, v |-> 0]} \cup
                 {[present |-> TRUE, v |-> x] : x \in GrowthValues}
        Keys == GrowthYears \X (1..Len(GrowthMonths))
        rows(f) ==
            Concat([k \in 1..MaxGrowthYears |->
                Concat([m \in 1..Len(GrowthMonths) |->
                    LET c == f[<<FirstGrowthYear + k - 1, m>>]
                    IN IF c.present
                       THEN << [Year |-> FirstGrowthYear + k - 1,
                                Month |-> GrowthMonths[m], MTD_SALES |-> c.v] >>
                       ELSE <<>>])])
    IN { rows(f) : f \in [Keys -> Cells] }

\* the columns of the pivot table: the years with a row, ascending
pivot_years(table) == SortedSeq(Range(Column(table, "Year")))

\* the index of the pivot table: the months with a row, in calendar order
pivot_months(table) ==
    SelectSeq(GrowthMonths, LAMBDA m : m \in Range(Column(table, "Month")))

\* a cell of the pivot table: the value of (month, year), NaN when no row
pivot_cell(table, month, year) ==
    LET hit == SelectSeq(table, LAMBDA r : r.Month = month /\ r.Year = year)
    IN IF hit = <<>> THEN NaNValue ELSE Num(hit[1].MTD_SALES)

\* the growth columns of one month: one per adjacent pair of years
growth_columns(table, month) ==
    LET years == pivot_years(table)
    IN [i \in 1..(Len(years) - 1) |->
           [prev_year |-> years[i], current_year |-> years[i + 1],
            value |-> format_growth(growth_pct(pivot_cell(table, month, years[i + 1]),
                                               pivot_cell(table, month, years[i])))]]

\* the year columns of one month after format_indian_money
year_columns(table, month) ==
    LET years == pivot_years(table)
    IN [i \in 1..Len(years) |->
           format_indian_money(pivot_cell(table, month, years[i]))]

\* "Projected (10% Growth)": the latest year's column times 1.10
projected_column(table, month) ==
    LET years == pivot_years(table)
        latest_year == years[Len(years)]
    IN format_indian_money(times_1_10(pivot_cell(table, month, latest_year)))

\* pivot_data with its year columns, its "Growth <prev> to <current>" columns
\* and its projection
growth_table(table) ==
    LET months == pivot_months(table)
    IN [m \in 1..Len(months) |->
           [Month |-> months[m],
            Years |-> year_columns(table, months[m]),
            Growth |-> growth_columns(table, months[m]),
            Projected |-> projected_column(table, months[m])]]

\* t_nagar_yearly: the sum of each year with a row
yearly_sales(table, year) ==
    sum(Column(SelectSeq(table, LAMBDA r : r.Year = year), "MTD_SALES"))

\* t_nagar_growth: one row per adjacent pair of years
yearly_growth(table) ==
    LET years == pivot_years(table)
    IN [i \in 1..(Len(years) - 1) |->
           [prev_year |-> years[i], current_year |-> years[i + 1],
            value |-> format_growth(growth_pct(Num(yearly_sales(table, years[i + 1])),
                                               Num(yearly_sales(table, years[i]))))]]

\* app.py 964-965: the (center_name, Year) sums of the growth analysis, in
\* groupby order (by center, then by year); a cell of the choice is a sum or
\* no row at all
GrowthCenters == <<"A", "B">>

CenterTables ==
    LET Cells == {[present |-> FALSE, v |-> 0]} \cup
                 {[present |-> TRUE, v |-> x] : x \in GrowthValues}
        Keys == (1..Len(GrowthCenters)) \X GrowthYears
        rows(f) ==
            Concat([c \in 1..Len(GrowthCenters) |->
                Concat([k \in 1..MaxGrowthYears |->
                    LET cell == f[<<c, FirstGrowthYear + k - 1>>]
                    IN IF cell.present
                       THEN << [center_name |-> GrowthCenters[c],
                                Year |-> FirstGrowthYear + k - 1,
                                sales_collected_inc_tax |-> cell.v] >>
                       ELSE <<>>])])
    IN { rows(f) : f \in [Keys -> Cells] }

\* the index of center_pivot: the centers with a row, sorted
pivot_centers(table) ==
    SelectSeq(GrowthCenters, LAMBDA c : c \in Range(Column(table, "center_name")))

\* a cell of center_pivot: the value of (center, year), NaN when no row
center_cell(table, center, year) ==
    LET hit == SelectSeq(table, LAMBDA r : r.center_name = center /\ r.Year = year)
    IN IF hit = <<>> THEN NaNValue ELSE Num(hit[1].sales_collected_inc_tax)

\* .round(2) and f"{x}%": the growth cell of center_pivot, two decimals
round_2_percent(x) ==
    IF isfinite(x) THEN [text |-> "number", hundredths |-> round_half_even(x.num * 100, x.den)]
    ELSE [text |-> x.kind \o "%", hundredths |-> 0]

\* the "Growth <prev>-<curr>" columns of one center
center_growth_columns(table, center) ==
    LET years == pivot_years(table)
    IN [i \in 1..(Len(years) - 1) |->
           [prev_year |-> years[i], current_year |-> years[i + 1],
            value |-> round_2_percent(growth_pct(center_cell(table, center, years[i + 1]),
                                                 center_cell(table, center, years[i])))]]

\* the year columns of one center after format_indian_money
center_year_columns(table, center) ==
    LET years == pivot_years(table)
    IN [i \in 1..Len(years) |->
           format_indian_money(center_cell(table, center, years[i]))]

\* app.py 1014-1015: the latest year's rows of yearly_center_sales times 1.1,
\* a Series that keeps the row labels of yearly_center_sales.  Assigned as a
\* column it is aligned on labels: row number i of center_pivot takes the
\* value labelled i, NaN when the Series has no such label.
projected_aligned(table, i) ==
    LET years == pivot_years(table)
        latest_year == years[Len(years)]
    IN IF i <= Len(table) /\ table[i].Year = latest_year
       THEN times_1_10(Num(table[i].sales_collected_inc_tax))
       ELSE NaNValue

\* center_pivot as the second st.dataframe shows it
center_table(table) ==
    LET centers == pivot_centers(table)
    IN [c \in 1..Len(centers) |->
           [center_name |-> centers[c],
            Years |-> center_year_columns(table, centers[c]),
            Growth |-> center_growth_columns(table, centers[c]),
            Projected |-> format_indian_money(projected_aligned(table, c))]]

InitGrowth ==
    /\ variant \in {"tabs", "app"}
    /\ pc = "start"
    /\ raw_sales_data = <<>>
    /\ leaves_data = <<>>
    /\ holiday_df = <<>>
    /\ selected_festival = NaN
    /\ selected_center = AllCenters
    /\ selected_years = {}
    /\ filtered_holidays = <<>>
    /\ window_totals = <<>>
    /\ festival_performance = <<>>
    /\ performance_df = <<>>
    /\ \/ outlet_yearly \in OutletTables /\ yearly_center_sales = <<>>
       \/ /\ variant = "app"
          /\ outlet_yearly = <<>>
          /\ yearly_center_sales \in CenterTables
    /\ pivot_data = <<>>
    /\ t_nagar_growth = <<>>
    /\ center_pivot = <<>>
    /\ fetched_data = [columns |-> {}, rows |-> <<>>]
    /\ grouped_sales = <<>>
    /\ success = TRUE
    /\ IdlePipeline

\* dashboard_tabs.py 165-211 (app.py 452-498 is the same code): the growth
\* table of the selected outlet
OutletGrowth ==
    /\ pc = "start"
    /\ variant = "tabs"
    /\ Len(pivot_years(outlet_yearly)) > 1
    /\ pivot_data' = growth_table(outlet_yearly)
    /\ pc' = "growth_shown"
    /\ UNCHANGED <<variant, pipelineVars, loadVars, holidayVars, outlet_yearly, t_nagar_growth,
                   yearly_center_sales, center_pivot>>

\* app.py 1053-1073: the growth table of the T NAGAR outlet
TNagarGrowth ==
    /\ pc = "start"
    /\ variant = "app"
    /\ Len(pivot_years(outlet_yearly)) > 1
    /\ t_nagar_growth' = yearly_growth(outlet_yearly)
    /\ pc' = "growth_shown"
    /\ UNCHANGED <<variant, pipelineVars, loadVars, holidayVars, outlet_yearly, pivot_data,
                   yearly_center_sales, center_pivot>>

\* app.py 960-1018: the growth and projection table of the growth analysis
CenterGrowth ==
    /\ pc = "start"
    /\ variant = "app"
    /\ Len(pivot_years(yearly_center_sales)) > 1
    /\ center_pivot' = center_table(yearly_center_sales)
    /\ pc' = "growth_shown"
    /\ UNCHANGED <<variant, pipelineVars, loadVars, holidayVars, outlet_yearly, pivot_data,
                   t_nagar_growth, yearly_center_sales>>

\* fewer than two years of data: no growth table
NoGrowth ==
    /\ pc = "start"
    /\ Len(pivot_years(outlet_yearly)) <= 1
    /\ Len(pivot_years(yearly_center_sales)) <= 1
    /\ pc' = "no_growth"
    /\ UNCHANGED <<variant, pipelineVars, loadVars, holidayVars, growthVars>>

NextGrowth ==
    \/ OutletGrowth
    \/ TNagarGrowth
    \/ CenterGrowth
    \/ NoGrowth

SpecGrowth == InitGrowth /\ [][NextGrowth]_vars

-----------------------------------------------------------------------------
(* The loader: data_loader.py 13-99 (load_sales_data, create_grouped_sales) *)
(* and app.py 106-234 (load_data).  A fetched row holds its values as they  *)
(* arrive: a date is a text or missing, an amount is a number, a text or    *)
(* missing; a missing outlet, business unit or invoice is NaN.              *)

MaxFetched == 3

DateText(y, m, d, tod) == [kind |-> "text", y |-> y, m |-> m, d |-> d, tod |-> tod]
Missing == [kind |-> "missing"]
Number(n) == [kind |-> "number", v |-> n]
CurrencyText(n) == [kind |-> "currency", v |-> n]     \* "$6", "1,000"
OtherText == [kind |-> "other"]                        \* "n/a"

FetchedRow(date, center, unit, invoice, exc, inc) ==
    [sale_date |-> date, center_name |-> center, business_unit |-> unit,
     invoice_no |-> invoice, sales_collected_exc_tax |-> exc,
     sales_collected_inc_tax |-> inc]

\* Candidate fetched rows
FetchedPool ==
    << FetchedRow(DateText(2023, 10, 24, 0), "A", "X", "i1", Number(6), Number(12)),
       FetchedRow(DateText(2023, 10, 24, 1), "A", "X", "i1", Number(6), Number(6)),
       FetchedRow(DateText(2023, 10, 25, 0), "A", "X", "i2", Number(12), Number(18)),
       FetchedRow(DateText(2023, 2, 29, 0), "A", "X", "i3", Number(6), Number(12)),
       FetchedRow(Missing, "B", "X", "i4", Number(6), Number(12)),
       FetchedRow(DateText(2024, 2, 29, 0), NaN, NaN, "i5", Number(6), Number(12)),
       FetchedRow(DateText(2024, 2, 29, 1), "A", NaN, NaN, Missing, Missing),
       FetchedRow(DateText(2024, 10, 24, 0), "A", "Other", "i6", OtherText, OtherText),
       FetchedRow(DateText(2024, 10, 24, 0), "B", "X", "i7",
                  CurrencyText(6), CurrencyText(12)),
       \* a line of invoice i1 at another outlet
       FetchedRow(DateText(2023, 10, 25, 0), "B", "X", "i1", Number(6), Number(12)) >>

AllColumns ==
    {"sale_date", "center_name", "business_unit", "invoice_no",
     "sales_collected_exc_tax", "sales_collected_inc_tax"}

\* a fetched table: its columns (all of them, or all but one) and its rows
FetchedTables ==
    { [columns |-> cols, rows |-> Pick(FetchedPool, idx)] :
        cols \in {AllColumns} \cup { AllColumns \ {c} : c \in AllColumns },
        idx \in IncSeqs(1, Len(FetchedPool), MaxFetched) }

NaT == [kind |-> "NaT"]

\* pd.to_datetime(x, errors='coerce'): the Timestamp of a text that is a
\* date, NaT for any other text and for a missing value
to_datetime(x) ==
    IF x.kind = "text" /\ ValidDate(x.y, x.m, x.d)
    THEN [kind |-> "timestamp", ts |-> TimestampAt(x.y, x.m, x.d, x.tod)]
    ELSE NaT

\* pd.to_datetime(x) with the default errors='raise' (supabase_utils.py 111)
strict_to_datetime_raises(x) ==
    x.kind = "text" /\ ~ValidDate(x.y, x.m, x.d)

\* data_loader.py 28-32: str.replace of "$", the rupee sign and "," and
\* pd.to_numeric(errors='coerce'); app.py 145-146: pd.to_numeric alone.
\* What is not a number becomes NaN.
to_numeric(v, x) ==
    IF x.kind = "number" THEN Num(x.v)
    ELSE IF x.kind = "currency" /\ v = "tabs" THEN Num(x.v)
    ELSE NaNValue

\* strftime('%B')
month_name(m) ==
    << "January", "February", "March", "April", "May", "June", "July",
       "August", "September", "October", "November", "December" >>[m]

\* the date column alone
date_column_only(v) == {"sale_date"}

\* the columns whose absence raises KeyError in the loader
required_columns(v) ==
    {"sale_date", "center_name", "business_unit", "invoice_no", AmountField(v)}

\* app.py 122-127 (MEMORY_OPTIMIZATION): an object column with less than
\* 50% unique values becomes a category column
is_category(table, col) ==
    LET values == { table.rows[i][col] : i \in 1..Len(table.rows) } \ {NaN}
    IN /\ col \in table.columns
       /\ values # {}
       /\ 2 * Cardinality(values) < Len(table.rows)

\* a numeric column of row i after the conversion, if the table has it
numeric_column(v, table, col, i) ==
    IF col \in table.columns THEN to_numeric(v, table.rows[i][col])
    ELSE [kind |-> "absent"]

\* dropna(subset=['sale_date']): the index labels of the rows with a date
dropna(table) ==
    SelectSeq([i \in 1..Len(table.rows) |-> i],
              LAMBDA i : to_datetime(table.rows[i].sale_date).kind # "NaT")

\* the normalized record of row i (lines 36-49 / 157-178)
normalized_record(v, table, i) ==
    LET row == table.rows[i]
        ts == to_datetime(row.sale_date).ts
    IN [index |-> i,
        sale_date |-> ts,
        Year |-> YearOf(ts),
        Month |-> month_name(MonthOf(ts)),
        center_name |-> row.center_name,
        SALON_NAMES |-> row.center_name,
        business_unit |-> row.business_unit,
        BRAND |-> IF row.business_unit = NaN THEN "Other" ELSE row.business_unit,
        invoice_no |-> row.invoice_no,
        sales_collected_exc_tax |->
            numeric_column(v, table, "sales_collected_exc_tax", i),
        sales_collected_inc_tax |->
            numeric_column(v, table, "sales_collected_inc_tax", i)]

\* sales_data after the normalization steps
normalized(v, table) ==
    LET kept == dropna(table)
    IN [k \in 1..Len(kept) |-> normalized_record(v, table, kept[k])]

\* groupby sorts its keys: years ascending, names in alphabetical order
AlphabeticalMonths ==
    << "April", "August", "December", "February", "January", "July", "June",
       "March", "May", "November", "October", "September" >>
SortedCenters == << "A", "B" >>
SortedBrands == << "Other", "X" >>

rank(names, x) == CHOOSE i \in 1..Len(names) : names[i] = x

\* a key <<Year, Month, SALON NAMES, BRAND>> sorts before another
key_less(a, b) ==
    LET ka == << a[1], rank(AlphabeticalMonths, a[2]),
                 rank(SortedCenters, a[3]), rank(SortedBrands, a[4]) >>
        kb == << b[1], rank(AlphabeticalMonths, b[2]),
                 rank(SortedCenters, b[3]), rank(SortedBrands, b[4]) >>
    IN \E i \in 1..4 : ka[i] < kb[i] /\ \A j \in 1..(i - 1) : ka[j] = kb[j]

RECURSIVE sorted_keys(_)
sorted_keys(K) ==
    IF K = {} THEN <<>>
    ELSE LET k == CHOOSE x \in K : \A y \in K \ {x} : key_less(x, y)
         IN <<k>> \o sorted_keys(K \ {k})

\* the group keys.  groupby drops the rows with a NaN key (SALON NAMES can be
\* NaN); the groups are the keys of the remaining rows.  In app.py SALON NAMES
\* and BRAND can be category columns: unless only observed categories are
\* shown, the groups are then all combinations of the levels of the four
\* keys, a category column having all its categories as levels.
group_keys(v, table, rows, observed) ==
    LET seen == { << rows[i].Year, rows[i].Month, rows[i].SALON_NAMES, rows[i].BRAND >> :
                    i \in { j \in 1..Len(rows) : rows[j].SALON_NAMES # NaN } }
        centers == IF is_category(table, "center_name")
                   THEN { table.rows[i].center_name : i \in 1..Len(table.rows) } \ {NaN}
                   ELSE { rows[i].SALON_NAMES : i \in 1..Len(rows) } \ {NaN}
        brands == IF is_category(table, "business_unit")
                  THEN { table.rows[i].business_unit : i \in 1..Len(table.rows) } \ {NaN}
                  ELSE { rows[i].BRAND : i \in 1..Len(rows) }
        levels == { << rows[i].Year, rows[j].Month, c, b >> :
                      i \in 1..Len(rows), j \in 1..Len(rows),
                      c \in centers, b \in brands }
    IN IF v = "app" /\ ~observed
          /\ (is_category(table, "center_name") \/ is_category(table, "business_unit"))
       THEN levels
       ELSE seen

\* sum of a numeric column: NaN is skipped
RECURSIVE nansum(_)
nansum(s) ==
    IF s = <<>> THEN 0
    ELSE (IF Head(s).kind = "num" THEN Head(s).num ELSE 0) + nansum(Tail(s))

\* nunique: the number of distinct values, NaN not counted
nunique(s) == Cardinality(Range(s) \ {NaN})

\* one row of grouped_sales: sum, nunique and the average bill value
bucket(v, rows, key) ==
    LET members == SelectSeq(rows, LAMBDA r :
                       << r.Year, r.Month, r.SALON_NAMES, r.BRAND >> = key)
        MTD_SALES == nansum(Column(members, AmountField(v)))
        MTD_BILLS == nunique(Column(members, "invoice_no"))
    IN [Year |-> key[1], Month |-> key[2], SALON_NAMES |-> key[3], BRAND |-> key[4],
        MTD_SALES |-> MTD_SALES,
        MTD_BILLS |-> MTD_BILLS,
        MTD_ABV |-> IF MTD_BILLS > 0 THEN Frac(MTD_SALES, MTD_BILLS) ELSE Num(0)]

\* create_grouped_sales (data_loader.py 78-99), app.py 198-216
create_grouped_sales(v, table, rows, observed) ==
    LET keys == sorted_keys(group_keys(v, table, rows, observed))
    IN [k \in 1..Len(keys) |-> bucket(v, rows, keys[k])]

\* fetch_data_from_supabase raises: its pd.to_datetime(df['sale_date'])
\* (supabase_utils.py 110-125) does not coerce
fetch_raises(table) ==
    /\ "sale_date" \in table.columns
    /\ \E i \in 1..Len(table.rows) :
        strict_to_datetime_raises(table.rows[i].sale_date)

\* a column the loader indexes is missing
key_error(v, table) == ~(required_columns(v) \subseteq table.columns)

\* app.py 178: fillna('Other') on a category column without that category
fillna_raises(table) ==
    /\ is_category(table, "business_unit")
    /\ \A i \in 1..Len(table.rows) : table.rows[i].business_unit # "Other"

InitLoad ==
    /\ variant \in {"tabs", "app"}
    /\ pc = "start"
    /\ fetched_data \in FetchedTables
    /\ raw_sales_data = <<>>
    /\ grouped_sales = <<>>
    /\ success = TRUE
    /\ IdlePipeline
    /\ leaves_data = <<>>
    /\ holiday_df = <<>>
    /\ selected_festival = NaN
    /\ selected_center = AllCenters
    /\ selected_years = {}
    /\ filtered_holidays = <<>>
    /\ window_totals = <<>>
    /\ festival_performance = <<>>
    /\ performance_df = <<>>
    /\ outlet_yearly = <<>>
    /\ pivot_data = <<>>
    /\ t_nagar_growth = <<>>
    /\ yearly_center_sales = <<>>
    /\ center_pivot = <<>>

\* the end of a load: the result, or the empty tables of a failure branch.
\* With no group at all the "MTD ABV" assignment gets the empty frame that
\* apply(axis=1) returns and raises or not (ends_in_error).
load_result(rows, grouped, failed, ends_in_error) ==
    IF failed \/ (grouped = <<>> /\ ends_in_error)
    THEN /\ raw_sales_data' = <<>>
         /\ grouped_sales' = <<>>
         /\ success' = FALSE
    ELSE /\ raw_sales_data' = rows
         /\ grouped_sales' = grouped
         /\ success' = TRUE

\* load_sales_data (data_loader.py 13-75)
LoadSalesData ==
    /\ pc = "start"
    /\ variant = "tabs"
    /\ \E ends_in_error \in BOOLEAN :
        IF \/ fetch_raises(fetched_data)            \* except, lines 69-75
           \/ fetched_data.rows = <<>>              \* else, lines 61-67
           \/ key_error(variant, fetched_data)      \* except, lines 69-75
        THEN load_result(<<>>, <<>>, TRUE, ends_in_error)
        ELSE LET rows == normalized(variant, fetched_data)
             IN load_result(rows,
                            create_grouped_sales(variant, fetched_data, rows, TRUE),
                            FALSE, ends_in_error)
    /\ pc' = "loaded"
    /\ UNCHANGED <<variant, pipelineVars, fetched_data, leaves_data, holiday_df,
                   selected_festival, selected_center, selected_years,
                   filtered_holidays, window_totals, festival_performance,
                   performance_df, growthVars>>

\* load_data (app.py 106-234)
LoadData ==
    /\ pc = "start"
    /\ variant = "app"
    /\ \E ends_in_error \in BOOLEAN, observed \in BOOLEAN :
        IF \/ fetched_data.rows = <<>>              \* except, lines 129-132
           \/ key_error(variant, fetched_data)      \* except, lines 232-234
           \/ fillna_raises(fetched_data)           \* except, lines 232-234
        THEN load_result(<<>>, <<>>, TRUE, ends_in_error)
        ELSE LET rows == normalized(variant, fetched_data)
             IN load_result(rows,
                            create_grouped_sales(variant, fetched_data, rows, observed),
                            FALSE, ends_in_error)
    /\ pc' = "loaded"
    /\ UNCHANGED <<variant, pipelineVars, fetched_data, leaves_data, holiday_df,
                   selected_festival, selected_center, selected_years,
                   filtered_holidays, window_totals, festival_performance,
                   performance_df, growthVars>>

NextLoad ==
    \/ LoadSalesData
    \/ LoadData

SpecLoad == InitLoad /\ [][NextLoad]_vars

Next ==
    \/ GenerateHolidaysTabs
    \/ GenerateHolidaysApp
    \/ FiltersCrash
    \/ HolidayComparison
    \/ BestPerforming
    \/ NoAnalysisData

Spec == Init /\ [][Next]_vars

-----------------------------------------------------------------------------
(* Properties *)

Count(s, Test(_)) == Len(SelectSeq(s, Test))

\* the all-outlets records the generation produced (none when holiday_df is
\* the copy of the holiday table, or empty)
occurrences ==
    IF has_center_column(holiday_df)
    THEN SelectSeq(holiday_df, LAMBDA h : ~h.per_center)
    ELSE <<>>

generation_done == pc \notin {"start", "no_sales_data"}

\* C1: for every row (month, day) of the holiday table and every year of the
\* sales data, the generation produces one occurrence for that year when
\* (year, month, day) is a valid date, whether or not a sale falls on it, and
\* none when it is not (Feb 29 outside leap years).  One occurrence per table
\* row: rows with the same festival, month and day are counted together.
C1_OccurrencePerValidYear ==
    generation_done /\ raw_sales_data # <<>> =>
        LET src == source_data(variant, raw_sales_data, leaves_data)
            years == available_years(raw_sales_data)
        IN \A h \in 1..Len(src), k \in 1..Len(years) :
            LET m == MonthOf(src[h].Date)
                d == DayOf(src[h].Date)
                definitions == Count(src, LAMBDA x :
                    /\ x.Festivals = src[h].Festivals
                    /\ MonthOf(x.Date) = m /\ DayOf(x.Date) = d)
                produced == Count(occurrences, LAMBDA o :
                    /\ o.Festivals = src[h].Festivals /\ o.Year = years[k]
                    /\ MonthOf(o.Date) = m /\ DayOf(o.Date) = d)
            IN IF ValidDate(years[k], m, d)
               THEN produced = definitions
               ELSE produced = 0

\* C2: no two all-outlets occurrences share a holiday name and a year, and
\* the occurrences of one holiday come in ascending year order.
C2_OnePerHolidayYear ==
    generation_done =>
        \A i, j \in 1..Len(occurrences) :
            i < j /\ occurrences[i].Festivals = occurrences[j].Festivals
                => occurrences[i].Year < occurrences[j].Year

\* C3: a sale is counted in the window of an occurrence on date D if and only
\* if its timestamp falls on one of the 6 calendar days D-3 .. D+2, whatever
\* its time of day (for the sales of the center the window is evaluated for).
C3_WindowMembership ==
    pc = "ranked" =>
        \A e \in Range(window_totals), i \in 1..Len(raw_sales_data) :
            LET r == raw_sales_data[i]
            IN (e.Center = AllCenters \/ EqPd(r.center_name, e.Center)) =>
                (r \in Range(e.window_rows)
                    <=> DateOf(r.sale_date) \in (DateOf(e.Date) - 3)..(DateOf(e.Date) + 2))

\* the last index of the per-outlet records that start at position j
RECURSIVE group_end(_, _)
group_end(df, j) ==
    IF j > Len(df) \/ ~df[j].per_center THEN j - 1 ELSE group_end(df, j + 1)

\* C4: for every occurrence, the per-outlet records' totals sum to the total
\* of the all-outlets record of that occurrence.
C4_PerOutletSum ==
    generation_done /\ has_center_column(holiday_df) =>
        \A i \in 1..Len(holiday_df) :
            ~holiday_df[i].per_center =>
                sum(Column(SubSeq(holiday_df, i + 1, group_end(holiday_df, i + 1)),
                           "MTD_Sale")) = holiday_df[i].MTD_Sale

\* every growth cell the run rendered
rendered_growth ==
    UNION { { pivot_data[m].Growth[i].value : i \in 1..Len(pivot_data[m].Growth) }
            : m \in 1..Len(pivot_data) }
    \cup { t_nagar_growth[i].value : i \in 1..Len(t_nagar_growth) }

\* C5: no rendered growth value reads as infinity or NaN (a zero or absent
\* prior-year value gives an explicit undefined marker instead).
C5_NoInfOrNaNRendered ==
    pc = "growth_shown" =>
        \A g \in rendered_growth : g.text \notin {"inf%", "-inf%", "nan%"}

same_window(a, b) ==
    a.Festival = b.Festival /\ a.Date = b.Date /\ a.Center = b.Center

RECURSIVE stable_sort(_)
stable_sort(rows) ==
    IF rows = <<>> THEN <<>>
    ELSE LET sorted == stable_sort(SubSeq(rows, 1, Len(rows) - 1))
             x == rows[Len(rows)]
             n == Count(sorted, LAMBDA r :
                            r.Total_Window_Sales >= x.Total_Window_Sales)
         IN SubSeq(sorted, 1, n) \o <<x>> \o SubSeq(sorted, n + 1, Len(sorted))

trading_days(rows) == {DateOf(rows[i].sale_date) : i \in 1..Len(rows)}

RECURSIVE sum_over(_, _, _)
sum_over(table, col, idx) ==
    IF idx = {} THEN 0
    ELSE LET i == CHOOSE k \in idx : TRUE
         IN table[i][col] + sum_over(table, col, idx \ {i})

\* C9: the total of a window is the sum of the amount over exactly the sales
\* on the 6 calendar days D-3 .. D+2 that match the outlet (all sales of those
\* days for "All Centers"), and 0 when there is none.
C9_TotalIsWindowSum ==
    pc = "ranked" =>
        \A e \in Range(window_totals) :
            e.Center # NaN =>
                e.Total_Window_Sales =
                    sum_over(raw_sales_data, AmountField(variant),
                        {i \in 1..Len(raw_sales_data) :
                            /\ e.Center = AllCenters
                                 \/ raw_sales_data[i].center_name = e.Center
                            /\ DateOf(raw_sales_data[i].sale_date)
                                 \in (DateOf(e.Date) - 3)..(DateOf(e.Date) + 2)})

\* The total of a window is the sum over the sales whose timestamp lies in
\* [start_date, end_date]: C9 fails by the window's last day alone.
TotalIsSumOfFilteredRows ==
    pc = "ranked" =>
        \A e \in Range(window_totals) :
            e.Center # NaN =>
                e.Total_Window_Sales =
                    sum_over(raw_sales_data, AmountField(variant),
                        {i \in 1..Len(raw_sales_data) :
                            /\ e.Center = AllCenters
                                 \/ raw_sales_data[i].center_name = e.Center
                            /\ raw_sales_data[i].sale_date
                                 \in (e.Date - 3 * TicksPerDay)
                                     ..(e.Date + 2 * TicksPerDay)})

\* C10: all-outlets and per-outlet records differ by the outlet tag, the
\* comparison uses only untagged all-outlets records for "All Centers" and
\* only the records of the selected center otherwise, and it holds no
\* occurrence twice.
C10_NoMixing ==
    pc \in {"analysis", "ranked", "no_analysis_data"}
    /\ has_center_column(holiday_df) =>
        /\ \A h \in Range(holiday_df) : h.per_center <=> notna(h.Center)
        /\ \A h \in Range(filtered_holidays) :
              IF selected_center = AllCenters
              THEN ~h.per_center
              ELSE h.per_center /\ h.Center = selected_center
        /\ \A i, j \in 1..Len(filtered_holidays) :
              i < j => ~(/\ filtered_holidays[i].Festivals
                              = filtered_holidays[j].Festivals
                         /\ filtered_holidays[i].Date = filtered_holidays[j].Date)

Abs(x) == IF x < 0 THEN -x ELSE x

\* the growth cells of a row stand for the adjacent pairs of years, in order
one_per_adjacent_pair(growth, years) ==
    /\ Len(growth) = Len(years) - 1
    /\ \A i \in 1..Len(growth) :
        growth[i].prev_year = years[i] /\ growth[i].current_year = years[i + 1]

\* the cell shows (current / prev - 1) * 100 to two decimals
shows_growth(cell, current, prev) ==
    /\ cell.text = "number"
    /\ 2 * Abs(cell.hundredths * prev - (current - prev) * 10000) <= Abs(prev)

\* the rows of a table with the given key and year
rows_of(table, col, key, year) ==
    SelectSeq(table, LAMBDA r : r[col] = key /\ r.Year = year)

\* the growth cells of a row of a pivot table are those of its key
growth_of_key(row, table, col, val) ==
    LET years == SortedSeq({ table[i].Year : i \in 1..Len(table) })
    IN /\ one_per_adjacent_pair(row.Growth, years)
       /\ \A i \in 1..Len(row.Growth) :
           LET prev == rows_of(table, col, row[col], years[i])
               current == rows_of(table, col, row[col], years[i + 1])
           IN prev # <<>> /\ current # <<>> /\ prev[1][val] # 0
              => shows_growth(row.Growth[i].value, current[1][val], prev[1][val])

year_total(table, year) ==
    LET rows == SelectSeq(table, LAMBDA r : r.Year = year)
    IN sum_over(rows, "MTD_SALES", 1..Len(rows))

years_with_data(table, col, key) ==
    Cardinality({ table[i].Year : i \in { j \in 1..Len(table) : table[j][col] = key } })

\* C12: a month with data in fewer than 2 years has no growth cell at all in
\* the growth table of the outlet comparison, also when other months of the
\* outlet have data in 2 or more years (and nothing is raised).
C12_EmptyGrowthBelowTwoYears ==
    pc = "growth_shown" =>
        \A m \in 1..Len(pivot_data) :
            years_with_data(outlet_yearly, "Month", pivot_data[m].Month) < 2
                => pivot_data[m].Growth = <<>>

\* the cell shows 1.10 * latest in whole rupees
shows_projection(cell, latest) ==
    Abs(10 * cell.rupees - 11 * latest) <= 5

\* the projected cell of every row with a latest-year value is 1.10 times it
projection_of_key(rows, table, col, val) ==
    LET years == SortedSeq({ table[i].Year : i \in 1..Len(table) })
    IN \A r \in 1..Len(rows) :
        LET latest == rows_of(table, col, rows[r][col], years[Len(years)])
        IN latest # <<>> => shows_projection(rows[r].Projected, latest[1][val])

\* the projection of the outlet comparison alone
OutletProjectionIsLatestTimes110 ==
    pc = "growth_shown" =>
        projection_of_key(pivot_data, outlet_yearly, "Month", "MTD_SALES")

\* C13: in every projected-growth table (a month per row in the outlet
\* comparison, a center per row in the growth analysis) the projected value
\* of a row is 1.10 times the latest-year sales value of that same row.
C13_ProjectedIsLatestTimes110 ==
    pc = "growth_shown" =>
        /\ projection_of_key(pivot_data, outlet_yearly, "Month", "MTD_SALES")
        /\ projection_of_key(center_pivot, yearly_center_sales,
                             "center_name", "sales_collected_inc_tax")

loaded == pc = "loaded"

\* the fetched row a retained record comes from
fetched_row(r) == fetched_data.rows[r.index]

date_parses(d) == d.kind = "text" /\ ValidDate(d.y, d.m, d.d)

\* C14: every record retained in the normalized dataset has a non-null
\* outlet (a fetched row whose outlet is missing is not retained).
C14_RetainedHaveOutlet ==
    loaded =>
        \A k \in 1..Len(raw_sales_data) : raw_sales_data[k].center_name # NaN

\* C15: a fetched row with a valid date whose monetary field is missing or
\* is not a number is retained, and that field of its record is zero.
C15_MissingAmountIsZero ==
    loaded /\ success =>
        \A i \in 1..Len(fetched_data.rows) :
            \A col \in {"sales_collected_exc_tax", "sales_collected_inc_tax"}
                        \cap fetched_data.columns :
                /\ date_parses(fetched_data.rows[i].sale_date)
                /\ fetched_data.rows[i][col].kind \in {"missing", "other"}
                => \E k \in 1..Len(raw_sales_data) :
                    /\ raw_sales_data[k].index = i
                    /\ raw_sales_data[k][col] = Num(0)

\* the retained records are the fetched rows whose date parses, once each,
\* with the date, Year and Month of that date
retained_iff_date_parses ==
    /\ { raw_sales_data[k].index : k \in 1..Len(raw_sales_data) }
           = { i \in 1..Len(fetched_data.rows) :
                 date_parses(fetched_data.rows[i].sale_date) }
    /\ \A j, k \in 1..Len(raw_sales_data) :
           raw_sales_data[j].index = raw_sales_data[k].index => j = k
    /\ \A k \in 1..Len(raw_sales_data) :
           LET d == fetched_row(raw_sales_data[k]).sale_date
           IN /\ raw_sales_data[k].sale_date = TimestampAt(d.y, d.m, d.d, d.tod)
              /\ raw_sales_data[k].Year = d.y
              /\ raw_sales_data[k].Month = month_name(d.m)

\* the columns a load cannot do without, written out
needed_columns ==
    {"sale_date", "center_name", "business_unit", "invoice_no"}
    \cup (IF variant = "tabs" THEN {"sales_collected_exc_tax"}
          ELSE {"sales_collected_inc_tax"})

\* C16: a fetched row is retained if and only if its sale date parses to a
\* valid date (the others are dropped, nothing is raised), and every retained
\* record has that date, with Year and Month derived from it.  Stated for
\* tables that have the required columns and at least one row.
C16_RetainedIffDateParses ==
    loaded /\ fetched_data.rows # <<>> /\ needed_columns \subseteq fetched_data.columns
        => retained_iff_date_parses

\* the date filter of a load that did not end in a failure branch
DateFilterOfSuccessfulLoad ==
    loaded /\ success => retained_iff_date_parses

\* a load of the modular application that drops a row without a date
DateFilterWitness ==
    /\ loaded /\ success /\ variant = "tabs"
    /\ raw_sales_data # <<>>
    /\ Len(raw_sales_data) < Len(fetched_data.rows)

\* C17: when the fetched table is empty or lacks a required column, the
\* load returns empty raw and grouped tables, and it returns (it does not
\* raise to its caller).
C17_EmptyResultOnBadInput ==
    /\ pc \in {"start", "loaded"}
    /\ loaded /\ (\/ fetched_data.rows = <<>>
                  \/ ~(needed_columns \subseteq fetched_data.columns))
        => raw_sales_data = <<>> /\ grouped_sales = <<>>

\* a load of rows with valid dates from a table without its outlet column
C17_Witness ==
    /\ loaded
    /\ "center_name" \notin fetched_data.columns
    /\ fetched_data.rows # <<>>
    /\ \A i \in 1..Len(fetched_data.rows) :
           date_parses(fetched_data.rows[i].sale_date)
    /\ raw_sales_data = <<>> /\ grouped_sales = <<>>

\* the key of a record or of a bucket
key_of(r) == << r.Year, r.Month, r.SALON_NAMES, r.BRAND >>

\* the bucket has the bill count and the average bill value of its records
bucket_of_its_records(b) ==
    LET members == SelectSeq(raw_sales_data, LAMBDA r : key_of(r) = key_of(b))
        invoices == { members[i].invoice_no : i \in 1..Len(members) } \ {NaN}
        total == nansum(Column(members, AmountField(variant)))
    IN /\ b.MTD_SALES = total
       /\ b.MTD_BILLS = Cardinality(invoices)
       /\ b.MTD_ABV = IF Cardinality(invoices) = 0 THEN Num(0)
                      ELSE Frac(total, Cardinality(invoices))

\* the buckets are the given combinations, one bucket each
one_bucket_each(combinations) ==
    /\ \A c \in combinations :
           Cardinality({ k \in 1..Len(grouped_sales) : key_of(grouped_sales[k]) = c }) = 1
    /\ \A k \in 1..Len(grouped_sales) :
           /\ key_of(grouped_sales[k]) \in combinations
           /\ bucket_of_its_records(grouped_sales[k])

\* C18: there is exactly one bucket per distinct (year, month, outlet, brand)
\* combination of the normalized records and no other bucket; the bill count
\* of a bucket is the number of distinct invoice identifiers of its records,
\* its average bill value is total sales / bill count, or 0 for 0 bills.
C18_OneBucketPerCombination ==
    loaded /\ success =>
        one_bucket_each({ key_of(raw_sales_data[i]) : i \in 1..Len(raw_sales_data) })

\* the buckets of the modular application: one per combination of the
\* records that have an outlet
BucketsOfRecordsWithOutlet ==
    loaded /\ success /\ variant = "tabs" =>
        one_bucket_each({ key_of(raw_sales_data[i]) :
            i \in { j \in 1..Len(raw_sales_data) : raw_sales_data[j].SALON_NAMES # NaN } })

\* the buckets of the monolithic application when its records all have an
\* outlet: refuted when SALON NAMES or BRAND is a category column, the
\* combinations without a record then having a bucket of 0 sales and 0 bills
BucketsOfAppWithOutlets ==
    /\ loaded /\ success /\ variant = "app"
    /\ \A i \in 1..Len(raw_sales_data) : raw_sales_data[i].SALON_NAMES # NaN
    => one_bucket_each({ key_of(raw_sales_data[i]) : i \in 1..Len(raw_sales_data) })

\* no row of the holiday table has, in any year of the data, a sale on its
\* month and day
no_holiday_with_sales ==
    LET table == source_data(variant, raw_sales_data, leaves_data)
    IN \A h \in 1..Len(table), r \in 1..Len(raw_sales_data) :
        ~ /\ MonthOf(raw_sales_data[r].sale_date) = MonthOf(table[h].Date)
          /\ DayOf(raw_sales_data[r].sale_date) = DayOf(table[h].Date)

\* C19: when there are sales but no holiday of the table has a sale on its
\* date in any year of the data, the holiday analysis has no occurrence and
\* no aggregate to show, and the run does not end in an exception.
C19_NoHolidayDataIsEmpty ==
    generation_done /\ raw_sales_data # <<>> /\ no_holiday_with_sales =>
        /\ holiday_df = <<>>
        /\ filtered_holidays = <<>>
        /\ performance_df = <<>>
        /\ pc # "crashed"

\* C20: a step of the holidays tab leaves the session's normalized sales
\* records and its holiday table as they were (rows, columns and values).
C20_NothingMutated ==
    [][raw_sales_data' = raw_sales_data /\ leaves_data' = leaves_data]_vars

\* the sales records alone are left as they were
SalesRecordsUnchanged == [][raw_sales_data' = raw_sales_data]_vars

-----------------------------------------------------------------------------
(* The holidays tab on three sales of one Diwali day *)

\* the amounts of the three records
ExampleAmounts == <<100, 200, 0>>

ExampleOutlets == {"A", "B", NaN}

\* three records dated Oct 24 of 2023, of any outlets, at any time of day
ExampleDatasets ==
    { [k \in 1..3 |-> Sale(2023, 10, 24, tod, center[k],
                           ExampleAmounts[k], ExampleAmounts[k])] :
        center \in [1..3 -> ExampleOutlets], tod \in 0..(TicksPerDay - 1) }

InitExample ==
    /\ variant \in {"tabs", "app"}
    /\ pc = "start"
    /\ raw_sales_data \in ExampleDatasets
    /\ leaves_data \in LeavesTables
    /\ holiday_df = <<>>
    /\ selected_festival = NaN
    /\ selected_center = AllCenters
    /\ selected_years = {}
    /\ filtered_holidays = <<>>
    /\ window_totals = <<>>
    /\ festival_performance = <<>>
    /\ performance_df = <<>>
    /\ outlet_yearly = <<>>
    /\ pivot_data = <<>>
    /\ t_nagar_growth = <<>>
    /\ yearly_center_sales = <<>>
    /\ center_pivot = <<>>
    /\ fetched_data = [columns |-> {}, rows |-> <<>>]
    /\ grouped_sales = <<>>
    /\ success = TRUE
    /\ IdlePipeline

SpecExample == InitExample /\ [][Next]_vars

\* the ranked output has a row of the holiday and year with this total and
\* this average
ranked_row(festival, year, total, average) ==
    \E i \in 1..Len(performance_df) :
        /\ performance_df[i].Festival = festival
        /\ performance_df[i].Year = year
        /\ performance_df[i].Total_Window_Sales = total
        /\ performance_df[i].Average_Daily_Sales.num
             = average * performance_df[i].Average_Daily_Sales.den

ExampleOfAllOutletsWindow ==
    (variant = "app" /\ pc = "ranked" /\ selected_center = AllCenters
       /\ 2023 \in selected_years)
        => /\ ranked_row("Diwali", 2023, 300, 50)
           /\ \A i \in 1..Len(performance_df) : performance_df[i].Year # 2022

\* dashboard_tabs.py ranks one window per outlet name: the example holds
\* when the three records are of one outlet that has a name
ExampleOfOneOutlet ==
    (variant = "tabs" /\ pc = "ranked" /\ selected_center = AllCenters
       /\ 2023 \in selected_years
       /\ \E c \in ExampleOutlets \ {NaN} :
             \A k \in 1..Len(raw_sales_data) : raw_sales_data[k].center_name = c)
        => ranked_row("Diwali", 2023, 300, 50)

ExampleRanked ==
    /\ pc = "ranked" /\ selected_center = AllCenters /\ 2023 \in selected_years
    /\ ranked_row("Diwali", 2023, 300, 50)


-----------------------------------------------------------------------------
(* The ranking and the holiday selected for the detailed analysis *)

\* the rows of the ranking table of a run in which `festival` is selected,
\* the other inputs and selections being those of this run: the table is
\* computed inside the branch `if analysis_data:` of the selected holiday
ranking_of(festival) ==
    IF has_analysis_data(raw_sales_data, holiday_df, festival,
                         selected_center, selected_years)
    THEN performance_rows(window_evaluations(variant, raw_sales_data, holiday_df,
                                             selected_center, selected_years))
    ELSE <<>>

analysis_done == pc \in {"ranked", "no_analysis_data"}

\* C28: the rows of the ranking table are those of this run's sales data,
\* selected years and selected center, and a run that differs only in the
\* holiday selected for the detailed analysis has the same rows; the table
\* has rows whenever some window has positive sales.
C28_RankingIndependentOfFestival ==
    analysis_done =>
        /\ festival_performance = ranking_of(selected_festival)
        /\ \A f \in Range(Column(holiday_df, "Festivals")) :
               ranking_of(f) = ranking_of(selected_festival)

\* among the runs whose selected holiday has sales around it, the rows of
\* the ranking do not depend on the selected holiday
RankingOfRunsWithAnalysis ==
    pc = "ranked" =>
        \A f \in Range(Column(holiday_df, "Festivals")) :
            has_analysis_data(raw_sales_data, holiday_df, f,
                              selected_center, selected_years)
                => ranking_of(f) = festival_performance


-----------------------------------------------------------------------------
(* The session: script runs, the data load and the Refresh button           *)
(* app_modular.py 26-135, app.py 70-103 and 240-303, data_loader.py 125-138 *)

MaxTime == 3

\* the tabs' own variables while the code around the tabs is looked at
IdleTabs ==
    /\ raw_sales_data = <<>>
    /\ leaves_data = <<>>
    /\ holiday_df = <<>>
    /\ selected_festival = NaN
    /\ selected_center = AllCenters
    /\ selected_years = {}
    /\ filtered_holidays = <<>>
    /\ window_totals = <<>>
    /\ festival_performance = <<>>
    /\ performance_df = <<>>
    /\ outlet_yearly = <<>>
    /\ pivot_data = <<>>
    /\ t_nagar_growth = <<>>
    /\ yearly_center_sales = <<>>
    /\ center_pivot = <<>>
    /\ fetched_data = [columns |-> {}, rows |-> <<>>]
    /\ grouped_sales = <<>>
    /\ success = TRUE

tabsVars == <<holidayVars, growthVars, loadVars>>

\* A data frame as the code around the tabs sees it: pd.DataFrame() of a
\* failure branch ("no_columns"), a frame with columns and no rows
\* ("empty"), a frame with rows ("rows").
\* What a run of the loader can return (load_result): the failure result,
\* or raw and grouped tables, the grouped one empty when no record has a
\* group key.
LoadOutcomes ==
    { [success |-> FALSE, raw_data |-> "no_columns", grouped_data |-> "no_columns"],
      [success |-> TRUE, raw_data |-> "empty", grouped_data |-> "empty"],
      [success |-> TRUE, raw_data |-> "rows", grouped_data |-> "empty"],
      [success |-> TRUE, raw_data |-> "rows", grouped_data |-> "rows"] }

\* the result of a loader call at time t with the sales part `sales`
Result(sales, fetched_at, t) ==
    [kind |-> "result", success |-> sales.success, raw_data |-> sales.raw_data,
     grouped_data |-> sales.grouped_data, fetched_at |-> fetched_at,
     timestamp |-> t]

\* strftime('%Y-%m-%d %H:%M:%S') of the time t
TimeText(t) == [kind |-> "time", at |-> t]

\* a slip: the result is stored whatever the load reported
stores_any_result(v, result) == TRUE

\* app_modular.py 63: if dashboard_data["sales"]["success"]
\* app.py 246: if not grouped_sales.empty and not raw_sales_data.empty
stores_result(v, result) ==
    IF v = "tabs" THEN result.success
    ELSE result.grouped_data = "rows" /\ result.raw_data = "rows"

\* a slip: the button clears the caches and leaves the session as it is
session_kept(state) == state

\* app_modular.py 42-43, app.py 87-89: the button resets the session
session_reset(state) ==
    [state EXCEPT !.data_loaded = FALSE, !.dashboard_data = None]

InitSession ==
    /\ variant \in {"tabs", "app"}
    /\ pc = "idle"
    /\ IdleTabs
    /\ NewSession
    /\ NoOverview
    /\ NoFetch
    /\ NoChunks

\* time passes between two script runs
Tick ==
    /\ pc = "idle"
    /\ now < MaxTime
    /\ now' = now + 1
    /\ UNCHANGED <<variant, pc, tabsVars, fetchVars, chunkVars, overview, cache_data, session_state, run>>

\* a widget other than the button is used, or the page is opened: the
\* script runs from the top
Interact ==
    /\ pc = "idle"
    /\ pc' = "script"
    /\ run' = NoRun
    /\ UNCHANGED <<variant, tabsVars, fetchVars, chunkVars, overview, now, cache_data, session_state>>

\* app_modular.py 38-45, app.py 83-91: "Refresh All Data" is clicked; the
\* run clears the caches, resets the session and reruns the script
RefreshAllData ==
    /\ pc = "idle"
    /\ cache_data' = None
    /\ session_state' = session_reset(session_state)
    /\ pc' = "script"
    /\ run' = [NoRun EXCEPT !.rerun = TRUE]
    /\ UNCHANGED <<variant, tabsVars, fetchVars, chunkVars, overview, now>>

\* data_loader.py 13, 125-138: load_all_data calls load_sales_data, which
\* st.cache_data answers from the cache while the entry has not expired
\* (the ttl is a setting), and which fetches otherwise
\* app_modular.py 57-70: the result is stored when the sales part succeeded
LoadAllData ==
    /\ pc = "script"
    /\ variant = "tabs"
    /\ ~session_state.data_loaded
    /\ \E expired \in BOOLEAN, outcome \in LoadOutcomes :
        LET cached == cache_data # None
                      /\ ~(expired /\ now > cache_data.fetched_at)
            sales == IF cached THEN cache_data ELSE Result(outcome, now, now)
            result == Result(sales, sales.fetched_at, now)
        IN /\ cache_data' = sales
           /\ session_state' =
                 IF stores_result(variant, result)
                 THEN [data_loaded |-> TRUE, dashboard_data |-> result,
                       last_refresh_time |-> TimeText(result.timestamp)]
                 ELSE session_state
           /\ run' = [run EXCEPT !.source = "loader", !.data = result]
    /\ pc' = "tabs"
    /\ UNCHANGED <<variant, tabsVars, fetchVars, chunkVars, overview, now>>

\* app.py 106-234, 241-250: load_data is not cached; it sets the refresh
\* time when it does not end in its except branch; both tables are stored
\* when both have rows
LoadDataOfSession ==
    /\ pc = "script"
    /\ variant = "app"
    /\ ~session_state.data_loaded
    /\ \E outcome \in LoadOutcomes :
        LET result == Result(outcome, now, now)
            timed == IF result.success
                     THEN [session_state EXCEPT !.last_refresh_time = TimeText(now)]
                     ELSE session_state
        IN /\ session_state' =
                 IF stores_result(variant, result)
                 THEN [timed EXCEPT !.data_loaded = TRUE,
                                    !.dashboard_data = result]
                 ELSE timed
           /\ run' = [run EXCEPT !.source = "loader", !.data = result]
    /\ pc' = "tabs"
    /\ UNCHANGED <<variant, tabsVars, fetchVars, chunkVars, overview, now, cache_data>>

\* app_modular.py 71-73, app.py 251-254: the data of the session is used
UseSessionData ==
    /\ pc = "script"
    /\ session_state.data_loaded
    /\ run' = [run EXCEPT !.source = "session",
                          !.data = session_state.dashboard_data]
    /\ pc' = "tabs"
    /\ UNCHANGED <<variant, tabsVars, fetchVars, chunkVars, overview, now, cache_data, session_state>>

\* How the rest of the run ends.
\* app_modular.py 98-135 with dashboard_tabs.py 8-15, 121-128, 237-245, 642:
\* without has_data one st.info; with it each tab tests its table for
\* emptiness before it reads a column.
\* app.py 296-303: tab1 reads grouped_sales['Year'] with no test (KeyError
\* on the frame of a failure branch); app.py 569-577, 960: tab4 reads
\* service_years, which tab3 assigns only under has_raw_data (NameError).
run_end(v, state, data) ==
    IF v = "tabs"
    THEN IF ~state.data_loaded THEN "message"
         ELSE IF data.grouped_data = "rows" \/ data.raw_data = "rows" THEN "tabs"
         ELSE "message"
    ELSE IF data.grouped_data = "no_columns" THEN "exception"
         ELSE IF ~(state.data_loaded /\ data.raw_data = "rows") THEN "exception"
         ELSE "tabs"

RenderTabs ==
    /\ pc = "tabs"
    /\ run' = [run EXCEPT !.end = run_end(variant, session_state, run.data)]
    /\ pc' = "idle"
    /\ UNCHANGED <<variant, tabsVars, fetchVars, chunkVars, overview, now, cache_data, session_state>>

NextSession ==
    \/ Tick
    \/ Interact
    \/ RefreshAllData
    \/ LoadAllData
    \/ LoadDataOfSession
    \/ UseSessionData
    \/ RenderTabs

SpecSession == InitSession /\ [][NextSession]_vars


\* the step is a call of the loader that reported a failure
failed_load_step ==
    pc = "script" /\ run'.source = "loader" /\ ~run'.data.success

\* C22: in every state of a session data_loaded holds only if the session
\* holds a dataset (not None) whose load reported success, and a load that
\* reported a failure changes neither data_loaded nor the stored dataset.
C22_SessionStore ==
    [][ /\ session_state'.data_loaded
            => /\ session_state'.dashboard_data # None
               /\ session_state'.dashboard_data.success
        /\ failed_load_step
            => /\ session_state'.data_loaded = session_state.data_loaded
               /\ session_state'.dashboard_data = session_state.dashboard_data
      ]_vars

\* a load failed in a session that had loaded with success before and was
\* refreshed since
C22_Witness ==
    /\ pc = "tabs"
    /\ run.source = "loader"
    /\ ~run.data.success
    /\ ~session_state.data_loaded
    /\ session_state.last_refresh_time # None

\* C23: a script run calls the loader exactly when data_loaded is false at
\* that point; the run of a click on the button leaves the cache empty,
\* data_loaded false and the stored dataset None; and the run that follows
\* takes its data from a loader call that fetched at that moment, not from
\* the session or the cache.
C23_LoadOnceReloadOnRefresh ==
    [][ /\ pc = "script"
            => (run'.source = "loader" <=> ~session_state.data_loaded)
        /\ (pc = "idle" /\ pc' = "script" /\ run'.rerun)
            => /\ cache_data' = None
               /\ ~session_state'.data_loaded
               /\ session_state'.dashboard_data = None
        /\ (pc = "script" /\ run.rerun)
            => /\ run'.source = "loader"
               /\ run'.data.fetched_at = now
               /\ run'.data.timestamp = now
      ]_vars

\* a run started by the button has rendered the tabs from a load of that
\* moment, in a session that had data before
C23_Witness ==
    /\ pc = "idle"
    /\ run.rerun
    /\ run.source = "loader"
    /\ run.end = "tabs"
    /\ run.data.fetched_at = now
    /\ now > 1

\* the load of the run failed or returned tables without rows
nothing_loaded ==
    /\ run.source = "loader"
    /\ \/ ~run.data.success
       \/ run.data.raw_data # "rows" /\ run.data.grouped_data # "rows"

\* C24: a run whose load failed or returned empty tables ends with a
\* message, never with an unhandled exception.
C24_EmptyResultsHandled ==
    (pc = "idle" /\ nothing_loaded) => run.end = "message"

\* app_modular.py with dashboard_tabs.py: every tab tests for emptiness first
EmptyResultsOfModularApp ==
    (variant = "tabs" /\ pc = "idle" /\ nothing_loaded) => run.end = "message"


-----------------------------------------------------------------------------
(* The paginated fetch: supabase_utils.py 20-125 *)

MaxTableRows == 3

\* page_size, 10000 in the source, scaled to the tables of the model
PageSize == 2

\* if page > 50: the safety limit per year
PageRetryLimit == 50

TableRow(id, date) == [id |-> id, sale_date |-> date]

\* Candidate rows of the table: three of 2020, one of 2025, one after and
\* one before the fetched years, one without a date
TablePool ==
    << TableRow(1, DateText(2020, 1, 1, 0)),
       TableRow(2, DateText(2020, 6, 15, 0)),
       TableRow(3, DateText(2020, 12, 31, 1)),
       TableRow(4, DateText(2025, 3, 1, 0)),
       TableRow(5, DateText(2026, 1, 1, 0)),
       TableRow(6, DateText(2019, 12, 31, 1)),
       TableRow(7, Missing) >>

Tables == { Pick(TablePool, idx) : idx \in IncSeqs(1, Len(TablePool), MaxTableRows) }

\* .gte("sale_date", f"{year}-01-01").lt("sale_date", f"{year+1}-01-01"):
\* a row without a date matches no comparison
in_year(row, year) == row.sale_date.kind = "text" /\ row.sale_date.y = year

\* .range(start_range, end_range) of the rows of the year; the query has no
\* .order (query_params is None in every call), so each request gets the
\* rows in an order of the server's choice
pages_of(rows, start_range, end_range) ==
    LET n == Len(rows)
        last == IF end_range + 1 < n THEN end_range + 1 ELSE n
    IN { SubSeq(Pick(rows, order), start_range + 1, last) :
           order \in { o \in InjSeqs(1..n, n) : Len(o) = n } }

responses(year, page) ==
    LET start_range == page * PageSize
        end_range == start_range + PageSize - 1
    IN pages_of(SelectSeq(supabase_table, LAMBDA r : in_year(r, year)),
                start_range, end_range)

\* a slip: the page limit is never tested
no_limit(page) == FALSE

\* supabase_utils.py 92: if page > 50
limit_reached(page) == page > PageRetryLimit

\* pd.DataFrame(all_data), or pd.DataFrame() when nothing was collected
DataFrameOf(all_data) ==
    IF all_data = <<>> THEN [columns |-> {}, rows |-> <<>>]
    ELSE [columns |-> {"id", "sale_date"}, rows |-> all_data]

InitFetch ==
    /\ variant = "tabs"
    /\ pc = "start"
    /\ IdleTabs
    /\ NoOverview
    /\ NewSession
    /\ NoChunks
    /\ supabase_table \in Tables
    /\ fetch = NewFetch

\* supabase_utils.py 97-121: the while loop of a year is left; the next
\* year begins, or the function returns the frame
end_of_year(year_data, errors) ==
    LET all_data == fetch.all_data \o year_data
    IN IF fetch.year < LastFetchYear
       THEN /\ fetch' = [year |-> fetch.year + 1, page |-> 0,
                         year_data |-> <<>>, all_data |-> all_data,
                         errors |-> errors]
            /\ UNCHANGED <<pc, fetched_data>>
       ELSE /\ fetch' = [fetch EXCEPT !.year_data = year_data,
                                      !.all_data = all_data,
                                      !.errors = errors]
            /\ fetched_data' = DataFrameOf(all_data)
            /\ pc' = "returned"

\* supabase_utils.py 23: the client is there
GetClient ==
    /\ pc = "start"
    /\ pc' = "paging"
    /\ UNCHANGED <<variant, holidayVars, growthVars, fetched_data, grouped_sales,
                   success, sessionVars, fetchVars, chunkVars, overview>>

\* supabase_utils.py 16-17, 123-125: no client, the function raises
ClientFails ==
    /\ pc = "start"
    /\ pc' = "raised"
    /\ UNCHANGED <<variant, holidayVars, growthVars, fetched_data, grouped_sales,
                   success, sessionVars, fetchVars, chunkVars, overview>>

\* supabase_utils.py 46-86: the request of the page is answered
PageFetched ==
    /\ pc = "paging"
    /\ \E data \in responses(fetch.year, fetch.page) :
        LET year_data == fetch.year_data \o data
        IN IF data # <<>> /\ Len(data) >= PageSize
           THEN /\ fetch' = [fetch EXCEPT !.year_data = year_data,
                                          !.page = fetch.page + 1]
                /\ UNCHANGED <<pc, fetched_data>>
           ELSE end_of_year(year_data, fetch.errors)
    /\ UNCHANGED <<variant, holidayVars, growthVars, grouped_sales, success,
                   sessionVars, chunkVars, overview, supabase_table>>

\* supabase_utils.py 88-95: the request of the page raises
PageFailed ==
    /\ pc = "paging"
    /\ IF limit_reached(fetch.page + 1)
       THEN end_of_year(fetch.year_data, TRUE)
       ELSE /\ fetch' = [fetch EXCEPT !.page = fetch.page + 1, !.errors = TRUE]
            /\ UNCHANGED <<pc, fetched_data>>
    /\ UNCHANGED <<variant, holidayVars, growthVars, grouped_sales, success,
                   sessionVars, chunkVars, overview, supabase_table>>

NextFetch ==
    \/ GetClient
    \/ ClientFails
    \/ PageFetched
    \/ PageFailed

SpecFetch == InitFetch /\ [][NextFetch]_vars

\* the function runs on: it is not suspended for ever between two steps
SpecFetchFair == SpecFetch /\ WF_vars(NextFetch)


\* how many times the row is in the returned frame
copies(row) == Count(fetched_data.rows, LAMBDA r : r = row)

\* C25: when the fetch returns, every row of the table is in the returned
\* frame exactly once, whatever the rows of the table are and whichever
\* page requests failed.
C25_FetchesAllRows ==
    pc = "returned" =>
        \A i \in 1..Len(supabase_table) : copies(supabase_table[i]) = 1

\* what the fetch returns are rows of the table, dated in the fetched years
ReturnedRowsAreOfTheTable ==
    pc = "returned" =>
        \A i \in 1..Len(fetched_data.rows) :
            /\ fetched_data.rows[i] \in Range(supabase_table)
            /\ \E y \in FirstFetchYear..LastFetchYear :
                   in_year(fetched_data.rows[i], y)

\* with no failed request and every year within one page, the rows dated
\* in the fetched years are all returned, once each
OnePageYearsAreComplete ==
    (/\ pc = "returned"
     /\ ~fetch.errors
     /\ \A y \in FirstFetchYear..LastFetchYear :
            Count(supabase_table, LAMBDA r : in_year(r, y)) < PageSize)
        => \A i \in 1..Len(supabase_table) :
              (\E y \in FirstFetchYear..LastFetchYear : in_year(supabase_table[i], y))
                  => copies(supabase_table[i]) = 1

fetch_ended == pc \in {"returned", "raised"}

\* C26: the fetch ends.  Every pass of the page loop either leaves the loop
\* of its year or moves to a later page, the page number stays within the
\* limit (plus the pages of the table), the years are those of 2020..2025,
\* and the function returns or raises.
C26_FetchTerminates ==
    /\ [][ pc = "paging"
             => /\ \/ pc' = "returned"
                   \/ fetch'.year = fetch.year + 1
                   \/ fetch'.year = fetch.year /\ fetch'.page = fetch.page + 1
                /\ fetch'.page <= PageRetryLimit + MaxTableRows
                /\ fetch'.year \in FirstFetchYear..LastFetchYear ]_vars
    /\ <>fetch_ended

\* the fetch returned after the requests of the last year failed up to the
\* limit, with nothing collected from a table that has rows
C26_Witness ==
    /\ pc = "returned"
    /\ fetch.errors
    /\ fetch.page = PageRetryLimit
    /\ fetched_data.rows = <<>>
    /\ \E i \in 1..Len(supabase_table) : in_year(supabase_table[i], FirstFetchYear)


-----------------------------------------------------------------------------
(* The chunked service aggregation: process_data.py 38-129 *)

MaxServiceRows == 3
MaxChunkSize == 3

\* a "Sale Date" text, day-month-year
SaleDateText(d, m, y) == << d, m, y >>

ServiceRow(center, date, type, category, amount) ==
    [Center_Name |-> center, Sale_Date |-> date, Item_Type |-> type,
     Item_Category |-> category, Sales_Collected_Inc_Tax |-> amount]

\* Candidate rows of the csv
ServicePool ==
    << ServiceRow("A", SaleDateText("24", "10", "2023"), "Service", "Hair Cut", Num(100)),
       ServiceRow("A", SaleDateText("25", "10", "2023"), "Service", "Hair Cut", Num(50)),
       ServiceRow("A", SaleDateText("01", "01", "2024"), "Service", "Hair Cut", Num(7)),
       ServiceRow("A", SaleDateText("24", "10", "2023"), "Product", "Retail", Num(30)),
       ServiceRow("A", SaleDateText("24", "10", "2023"), "Service", "Hair Cut", NaNValue),
       ServiceRow(NaN, SaleDateText("24", "10", "2023"), "Service", "Facial", Num(20)),
       ServiceRow("A", SaleDateText("26", "10", "2023"), "Service", "Hair Cut", Num(-50)) >>

ServiceTables ==
    { Pick(ServicePool, idx) : idx \in IncSeqs(1, Len(ServicePool), MaxServiceRows) }

\* chunk['Sale Date'].str.split('-').str[-1]
year_of_sale_date(date) == date[Len(date)]

\* 'Product' if x == 'Product' else 'Service'
category_of(type) == IF type = "Product" THEN "Product" ELSE "Service"

\* categorize_service on the lower-cased item category (the csv of the
\* model has no 'Item Subcategory' and no 'Item Name': row.get gives '')
categorize_service(category, item_category) ==
    IF category # "Service" THEN "Product"
    ELSE IF item_category = "Hair Cut" THEN "Hair"        \* 'hair' in category
    ELSE IF item_category = "Facial" THEN "Skin"          \* 'facial' in category
    ELSE IF item_category = "Body Spa" THEN "SPA"         \* 'spa' in category
    ELSE "Other Services"

\* the columns the chunk is grouped by, of one row
preserved(row) ==
    LET category == category_of(row.Item_Type)
    IN << row.Center_Name, year_of_sale_date(row.Sale_Date), category,
          categorize_service(category, row.Item_Category), row.Item_Category >>

preserved_columns ==
    {"Center Name", "Year", "Category", "Service_Type", "Item Category"}

\* the keys in the order groupby sorts them in
SortedServiceKeys ==
    << << "A", "2023", "Product", "Product", "Retail" >>,
       << "A", "2023", "Service", "Hair", "Hair Cut" >>,
       << "A", "2024", "Service", "Hair", "Hair Cut" >> >>

\* the group keys of a frame: a row with NaN among its keys is in no group
service_keys(keys) == SelectSeq(SortedServiceKeys, LAMBDA k : k \in keys)

\* count: the number of values that are not NaN
count(s) == Len(SelectSeq(s, LAMBDA x : x.kind # "nan"))

\* chunk.groupby(preserved_columns)[amount].agg(['sum', 'count']).reset_index()
agg_chunk(chunk) ==
    LET keys == service_keys({ preserved(chunk[i]) : i \in 1..Len(chunk) })
    IN [columns |-> preserved_columns \cup {"sum", "count"},
        rows |-> [k \in 1..Len(keys) |->
            LET members == SelectSeq(chunk, LAMBDA r : preserved(r) = keys[k])
            IN [key |-> keys[k],
                sum |-> nansum(Column(members, "Sales_Collected_Inc_Tax")),
                count |-> count(Column(members, "Sales_Collected_Inc_Tax"))]]]

\* pd.concat([service_summary, agg_chunk])
concat(summary, chunk_frame) ==
    [columns |-> summary.columns \cup chunk_frame.columns,
     rows |-> summary.rows \o chunk_frame.rows]

\* 'count': 'sum'
sum_of_counts(partials) == sum(Column(partials, "count"))

\* service_summary.groupby(group_columns).agg({'sum': 'sum', 'count': 'sum'})
\* with the columns renamed
reaggregated(summary) ==
    LET keys == service_keys({ summary.rows[i].key : i \in 1..Len(summary.rows) })
    IN [columns |-> (summary.columns \ {"sum", "count"})
                        \cup {"Total_Sales", "Transaction_Count"},
        rows |-> [k \in 1..Len(keys) |->
            LET partials == SelectSeq(summary.rows, LAMBDA r : r.key = keys[k])
            IN [key |-> keys[k],
                Total_Sales |-> sum(Column(partials, "sum")),
                Transaction_Count |-> sum_of_counts(partials)]]]

InitChunks ==
    /\ variant = "app"
    /\ pc = "start"
    /\ IdleTabs
    /\ NewSession
    /\ NoOverview
    /\ NoFetch
    /\ raw_data \in ServiceTables
    /\ chunk_size \in 1..MaxChunkSize
    /\ next_chunk = 0
    /\ service_summary = EmptyFrame

\* process_data.py 43-44: the processed file is there already
FileExists ==
    /\ pc = "start"
    /\ pc' = "exists"
    /\ UNCHANGED <<variant, tabsVars, sessionVars, fetchVars, chunkVars, overview>>

\* process_data.py 47-54: the csv is read
ReadRawData ==
    /\ pc = "start"
    /\ pc' = "chunks"
    /\ UNCHANGED <<variant, tabsVars, sessionVars, fetchVars, chunkVars, overview>>

\* process_data.py 57-110: one pass of the loop
ProcessChunk ==
    /\ pc = "chunks"
    /\ next_chunk < Len(raw_data)
    /\ LET last == IF next_chunk + chunk_size < Len(raw_data)
                   THEN next_chunk + chunk_size ELSE Len(raw_data)
           chunk == SubSeq(raw_data, next_chunk + 1, last)
       IN service_summary' = concat(service_summary, agg_chunk(chunk))
    /\ next_chunk' = next_chunk + chunk_size
    /\ UNCHANGED <<variant, pc, tabsVars, sessionVars, fetchVars, overview, raw_data,
                   chunk_size>>

\* process_data.py 112-129: the partial aggregates are grouped again and
\* saved; with no chunk at all service_summary is pd.DataFrame(), which has
\* no 'sum' and no 'count' column to aggregate, and the call raises
Reaggregate ==
    /\ pc = "chunks"
    /\ next_chunk >= Len(raw_data)
    /\ IF service_summary.columns \ {"sum", "count"} = {}
       THEN pc' = "raised" /\ UNCHANGED service_summary
       ELSE pc' = "processed" /\ service_summary' = reaggregated(service_summary)
    /\ UNCHANGED <<variant, tabsVars, sessionVars, fetchVars, overview, raw_data,
                   chunk_size, next_chunk>>

NextChunks ==
    \/ FileExists
    \/ ReadRawData
    \/ ProcessChunk
    \/ Reaggregate

SpecChunks == InitChunks /\ [][NextChunks]_vars

\* the rows of the csv that belong to the group
rows_of_group(key) == SelectSeq(raw_data, LAMBDA r : preserved(r) = key)

\* the groups of the whole csv
groups_of_table ==
    service_keys({ preserved(raw_data[i]) : i \in 1..Len(raw_data) })

\* C27: for every table and every chunk size the aggregation ends with a
\* final frame that has one row per group of the whole table, whose
\* Total_Sales is the sum of the amounts of the group's rows and whose
\* Transaction_Count is the number of the group's rows.
C27_ChunkedEqualsOnePass ==
    /\ pc # "raised"
    /\ pc = "processed" =>
        /\ Len(service_summary.rows) = Len(groups_of_table)
        /\ \A k \in 1..Len(service_summary.rows) :
            LET row == service_summary.rows[k]
                members == rows_of_group(row.key)
            IN /\ row.key = groups_of_table[k]
               /\ row.Total_Sales = nansum(Column(members, "Sales_Collected_Inc_Tax"))
               /\ row.Transaction_Count = Len(members)

\* what does hold for every chunk size: the final frame is the frame of
\* sum and count (the amounts that are not missing) of the whole table
ChunkedEqualsAggOfWholeTable ==
    pc = "processed" =>
        service_summary.rows
            = [k \in 1..Len(groups_of_table) |->
                LET members == rows_of_group(groups_of_table[k])
                IN [key |-> groups_of_table[k],
                    Total_Sales |-> nansum(Column(members, "Sales_Collected_Inc_Tax")),
                    Transaction_Count |->
                        count(Column(members, "Sales_Collected_Inc_Tax"))]]

\* the aggregation raises for the csv without rows only
RaisesOnEmptyTableOnly == pc = "raised" => raw_data = <<>>

\* a group was aggregated from two chunks
ChunkedWitness ==
    /\ pc = "processed"
    /\ chunk_size < Len(raw_data)
    /\ \E k \in 1..Len(service_summary.rows) :
           Len(rows_of_group(service_summary.rows[k].key)) > chunk_size


-----------------------------------------------------------------------------
(* The sales overview tab: dashboard_tabs.py 8-104, app.py 296-345 *)

All == "All"

\* the rows of grouped_sales that pass the three selections (the year
\* widget has no "All": the test selected_year != "All" is always true)
filtered_data(grouped, year, brand, month) ==
    SelectSeq(grouped, LAMBDA b :
        /\ b.Year = year
        /\ brand # All => b.BRAND = brand
        /\ month # All => b.Month = month)

\* a slip: the number of rows of filtered_data
bills_as_row_count(filtered) == Len(filtered)

\* total_bills = filtered_data['MTD BILLS'].sum()
total_bills(filtered) == sum(Column(filtered, "MTD_BILLS"))

\* the metrics of the tab
metrics(filtered) ==
    LET total_sales == sum(Column(filtered, "MTD_SALES"))
        bills == total_bills(filtered)
    IN [total_sales |-> total_sales,
        total_bills |-> bills,
        avg_bill_value |-> IF bills > 0 THEN Frac(total_sales, bills) ELSE Num(0),
        total_outlets |-> nunique(Column(filtered, "SALON_NAMES"))]

\* the tab is rendered from a load that has buckets: the year is one of the
\* years (the only one when there is one), brand and month can be "All"
MtdSalesOverview ==
    /\ pc = "loaded"
    /\ success
    /\ grouped_sales # <<>>
    /\ \E year \in Range(Column(grouped_sales, "Year")),
          brand \in {All} \cup Range(Column(grouped_sales, "BRAND")),
          month \in {All} \cup Range(Column(grouped_sales, "Month")) :
        overview' = [kind |-> "overview", selected_year |-> year,
                     selected_brand |-> brand, selected_month |-> month,
                     metrics |-> metrics(filtered_data(grouped_sales, year, brand, month))]
    /\ pc' = "overview"
    /\ UNCHANGED <<variant, tabsVars, sessionVars, fetchVars, chunkVars>>

\* no buckets: the tab shows no metric (dashboard_tabs.py 13-15)
NoSalesOverview ==
    /\ pc = "loaded"
    /\ ~success \/ grouped_sales = <<>>
    /\ pc' = "no_overview"
    /\ UNCHANGED <<variant, tabsVars, sessionVars, fetchVars, chunkVars, overview>>

NextOverview ==
    \/ LoadSalesData
    \/ LoadData
    \/ MtdSalesOverview
    \/ NoSalesOverview

SpecOverview == InitLoad /\ [][NextOverview]_vars

\* the retained records that pass the selections of the tab
records_in_overview ==
    SelectSeq(raw_sales_data, LAMBDA r :
        /\ r.Year = overview.selected_year
        /\ overview.selected_brand # All => r.BRAND = overview.selected_brand
        /\ overview.selected_month # All => r.Month = overview.selected_month)

invoices_of(records) == { records[i].invoice_no : i \in 1..Len(records) } \ {NaN}

\* C29: the "Total Bills" metric is the number of distinct invoice
\* identifiers among the records that pass the year, brand and month
\* selections, also when an invoice has lines in several buckets.
C29_TotalBillsIsDistinctInvoices ==
    pc = "overview" =>
        overview.metrics.total_bills = Cardinality(invoices_of(records_in_overview))

\* every invoice of the selection has its lines in one bucket and every
\* record of the selection has an outlet
invoices_within_one_bucket ==
    LET records == records_in_overview
    IN /\ \A i \in 1..Len(records) : records[i].SALON_NAMES # NaN
       /\ \A i, j \in 1..Len(records) :
              (records[i].invoice_no = records[j].invoice_no
                 /\ records[i].invoice_no # NaN)
                  => key_of(records[i]) = key_of(records[j])

\* the metric is right when no invoice crosses a bucket
BillsOfInvoicesWithinOneBucket ==
    (pc = "overview" /\ variant = "tabs" /\ invoices_within_one_bucket) =>
        overview.metrics.total_bills = Cardinality(invoices_of(records_in_overview))


-----------------------------------------------------------------------------
(* Conservation of the records in the buckets *)

\* the buckets whose key is the key of the record
buckets_of(r) == { k \in 1..Len(grouped_sales) : key_of(grouped_sales[k]) = key_of(r) }

\* C30: after a successful load every retained record is in exactly one
\* bucket, the MTD SALES of all buckets add up to the sum of the amount
\* column over the retained records, and every outlet and every year of
\* the retained records is the outlet, the year, of some bucket.
C30_BucketConservation ==
    loaded /\ success =>
        /\ \A i \in 1..Len(raw_sales_data) :
               Cardinality(buckets_of(raw_sales_data[i])) = 1
        /\ sum(Column(grouped_sales, "MTD_SALES"))
               = nansum(Column(raw_sales_data, AmountField(variant)))
        /\ \A i \in 1..Len(raw_sales_data) :
               \E k \in 1..Len(grouped_sales) :
                   grouped_sales[k].SALON_NAMES = raw_sales_data[i].SALON_NAMES
        /\ \A i \in 1..Len(raw_sales_data) :
               \E k \in 1..Len(grouped_sales) :
                   grouped_sales[k].Year = raw_sales_data[i].Year

with_outlet == SelectSeq(raw_sales_data, LAMBDA r : r.SALON_NAMES # NaN)

\* what holds in both variants: the records that have an outlet are in one
\* bucket each and the buckets add up to the amounts of these records
ConservationOfRecordsWithOutlet ==
    loaded /\ success =>
        /\ \A i \in 1..Len(with_outlet) :
               Cardinality(buckets_of(with_outlet[i])) = 1
        /\ sum(Column(grouped_sales, "MTD_SALES"))
               = nansum(Column(with_outlet, AmountField(variant)))

\* a load with two records of one bucket and a record of another
ConservationWitness ==
    /\ loaded /\ success
    /\ Len(with_outlet) = 3
    /\ Len(grouped_sales) = 2


====
